---- MODULE Spec2Model ----
(***************************************************************************)
(* Model of UniversalAPIAnalyzer (src/unnamed/part_003, the current        *)
(* src/LocationAPIAnalyzer.ts): per-method collection of canIUse guards,   *)
(* exception markers and catalog API calls, de-duplication into findings,  *)
(* severity classification, recommendations and summary counts.            *)
(*                                                                         *)
(* Specifications: Spec (one analyze call on a fresh analyzer, one step    *)
(* per method), SpecWalk (one method, one step per statement),             *)
(* SpecInstance (several calls on one analyzer instance), SpecLocate       *)
(* (the location fallbacks of one API sighting, one step per fallback),    *)
(* SpecDemo (one run on the demo project, methods enumerated in any        *)
(* order), SpecWorkers (the method loop fanned out, one worker per method) *)
(* and SpecSerial (the serial run over the scenes of SpecWorkers).         *)
(*                                                                         *)
(* Text is modelled as a sequence of tokens.  A token is either one        *)
(* punctuation character or a run of characters without punctuation; the   *)
(* token SC stands for the literal "SystemCapability." .  "undefined" of   *)
(* an optional value is the empty sequence, a present value v is <<v>>.    *)
(***************************************************************************)
EXTENDS Integers, Sequences, FiniteSets

(* ---------------------------------------------------------------------- *)
(* Bounds of the model                                                     *)
(* ---------------------------------------------------------------------- *)
\* methods a scene enumerates
MaxMethods == 2
\* statements of a scene, all its methods together
MaxStmts == 2
\* statements of the method that is walked statement by statement
MaxWalk == 3
\* calls (analyze, getResults) made on one analyzer instance
MaxCalls == 3

(* ---------------------------------------------------------------------- *)
(* Generic helpers                                                         *)
(* ---------------------------------------------------------------------- *)
Undefined == <<>>

Some(v) == <<v>>

SeqsUpTo(S, n) == UNION {[1..k -> S] : k \in 0..n}

Range(s) == {s[i] : i \in 1..Len(s)}

\* String.prototype.includes on token sequences: sub occurs contiguously in s
Includes(s, sub) ==
    \E i \in 1..(Len(s) - Len(sub) + 1) : SubSeq(s, i, i + Len(sub) - 1) = sub

IsPrefix(p, s) == Len(p) <= Len(s) /\ SubSeq(s, 1, Len(p)) = p

\* [...new Set(names)] : distinct values in order of first insertion
RECURSIVE UniqueInOrder(_)
UniqueInOrder(s) ==
    IF s = <<>> THEN <<>>
    ELSE LET init == UniqueInOrder(SubSeq(s, 1, Len(s) - 1))
             last == s[Len(s)]
         IN  IF last \in Range(init) THEN init ELSE Append(init, last)

(* ---------------------------------------------------------------------- *)
(* Text of capabilities                                                    *)
(* ---------------------------------------------------------------------- *)
SC == "SystemCapability."

\* characters the class [A-Za-z0-9.] accepts (SC itself is made of them)
CapChars ==
    {SC, "Location", "Core", "Lite", "Wrong", "HiLog", "Capability", "Multimedia", "Camera", "."}

CapLocationCore == <<SC, "Location", ".", "Location", ".", "Core">>
CapLocation == <<SC, "Location", ".", "Location">>
CapLocationCoreLite == <<SC, "Location", ".", "Location", ".", "Core", ".", "Lite">>
CapWrong == <<SC, "Wrong">>
CapHiLog == <<SC, "HiLog">>
CapWrongCapability == <<SC, "Wrong", ".", "Capability">>
CapCameraCore == <<SC, "Multimedia", ".", "Camera", ".", "Core">>

Quote(t) == <<"'">> \o t \o <<"'">>

\* end of the greedy run [A-Za-z0-9.]+ that starts at position i
RECURSIVE RunEnd(_, _)
RunEnd(text, i) ==
    IF i + 1 <= Len(text) /\ text[i + 1] \in CapChars THEN RunEnd(text, i + 1) ELSE i

\* argStr.match(/SystemCapability\.[A-Za-z0-9.]+/) : leftmost match, greedy,
\* Undefined when there is none
MatchCapability(text) ==
    LET starts == {i \in 1..(Len(text) - 1) : text[i] = SC /\ text[i + 1] \in CapChars}
    IN  IF starts = {} THEN Undefined
        ELSE LET i == CHOOSE k \in starts : \A m \in starts : k <= m
             IN  Some(SubSeq(text, i, RunEnd(text, i + 1)))

(* ---------------------------------------------------------------------- *)
(* Capability catalog (ApiMapping.ts, generated by generate_api_mapping.js)*)
(* ---------------------------------------------------------------------- *)
CalleeNames == {"getCurrentLocation", "getLastLocation", "log", "canIUse", "helper"}

\* API_TO_SYSCAP is injected data: the run's catalog is one of these tables.
\* A name the table lacks maps to Undefined.
CatalogPlain ==
    [n \in CalleeNames |->
        CASE n = "getCurrentLocation" -> CapLocationCore
          [] n = "getLastLocation" -> CapLocationCore
          [] OTHER -> Undefined]

\* a table that also lists a built-in name and the guard function itself
CatalogCollide ==
    [n \in CalleeNames |->
        CASE n = "getCurrentLocation" -> CapLocationCore
          [] n = "getLastLocation" -> CapLocation
          [] n = "log" -> CapHiLog
          [] n = "canIUse" -> CapWrong
          [] OTHER -> Undefined]

Catalogs == {CatalogPlain, CatalogCollide}

getSystemCapability(cat, apiName) == cat[apiName]

\* truthiness of a string | undefined value
TruthyStr(v) == v # Undefined

\* faulty variant: the guard function is a member of the exclusion set
excludedMethodsWithGuard ==
    {"toString", "valueOf", "hasOwnProperty", "isPrototypeOf", "propertyIsEnumerable",
     "toLocaleString", "constructor", "length", "concat", "join", "pop", "push",
     "reverse", "shift", "slice", "sort", "splice", "unshift", "indexOf", "lastIndexOf",
     "every", "some", "forEach", "map", "filter", "reduce", "reduceRight",
     "charAt", "charCodeAt", "fromCharCode", "localeCompare",
     "match", "replace", "search", "split", "substr", "substring",
     "toLowerCase", "toUpperCase", "trim", "trimLeft", "trimRight",
     "log", "info", "warn", "error", "debug", "trace", "assert", "clear",
     "count", "dir", "dirxml", "group", "groupCollapsed", "groupEnd", "profile",
     "profileEnd", "table", "time", "timeEnd", "timeStamp",
     "parse", "stringify", "keys", "values", "entries", "assign", "create",
     "defineProperty", "defineProperties", "freeze", "seal", "preventExtensions",
     "isExtensible", "isFrozen", "isSealed", "getOwnPropertyDescriptor",
     "getOwnPropertyNames", "getOwnPropertySymbols", "getPrototypeOf", "setPrototypeOf",
     "call", "apply", "bind", "then", "catch", "finally", "resolve", "reject",
     "all", "race", "allSettled", "any",
     "canIUse"}

excludedMethods ==
    {"toString", "valueOf", "hasOwnProperty", "isPrototypeOf", "propertyIsEnumerable",
     "toLocaleString", "constructor", "length", "concat", "join", "pop", "push",
     "reverse", "shift", "slice", "sort", "splice", "unshift", "indexOf", "lastIndexOf",
     "every", "some", "forEach", "map", "filter", "reduce", "reduceRight",
     "charAt", "charCodeAt", "fromCharCode", "localeCompare",
     "match", "replace", "search", "split", "substr", "substring",
     "toLowerCase", "toUpperCase", "trim", "trimLeft", "trimRight",
     "log", "info", "warn", "error", "debug", "trace", "assert", "clear",
     "count", "dir", "dirxml", "group", "groupCollapsed", "groupEnd", "profile",
     "profileEnd", "table", "time", "timeEnd", "timeStamp",
     "parse", "stringify", "keys", "values", "entries", "assign", "create",
     "defineProperty", "defineProperties", "freeze", "seal", "preventExtensions",
     "isExtensible", "isFrozen", "isSealed", "getOwnPropertyDescriptor",
     "getOwnPropertyNames", "getOwnPropertySymbols", "getPrototypeOf", "setPrototypeOf",
     "call", "apply", "bind", "then", "catch", "finally", "resolve", "reject",
     "all", "race", "allSettled", "any"}

GuardName == "canIUse"

(* ---------------------------------------------------------------------- *)
(* Numbers in text                                                         *)
(* ---------------------------------------------------------------------- *)
DigitTokens == {"0", "5", "8", "12"}

\* parseInt of a run of decimal digits
parseInt(tok) ==
    CASE tok = "0" -> 0
      [] tok = "5" -> 5
      [] tok = "8" -> 8
      [] tok = "12" -> 12

\* truthiness of a number | undefined value: undefined and 0 are falsy
TruthyNum(v) == v # Undefined /\ v[1] # 0

\* text.match(/:(\d+):/) : the digits of the leftmost ":digits:" , or Undefined
MatchLineToken(text) ==
    LET hits == {i \in 1..(Len(text) - 2) :
                    text[i] = ":" /\ text[i + 1] \in DigitTokens /\ text[i + 2] = ":"}
    IN  IF hits = {} THEN Undefined
        ELSE Some(text[(CHOOSE k \in hits : \A m \in hits : k <= m) + 1])

(* ---------------------------------------------------------------------- *)
(* Method signatures and the texts cut out of them                         *)
(* ---------------------------------------------------------------------- *)
FileDemo == <<"demo/demo", ".", "ts">>
FileTest == <<"demo/test_multiple_apis", ".", "ts">>

\* MethodSignature.toString() of the methods the scene enumerates, by position
MethodSignatures ==
    << <<"@">> \o FileDemo \o <<":", " ", "Index", ".", "checkIn", "(", ")">>,
       <<"@">> \o FileTest \o <<":", " ", "TestMultipleAPIs", ".", "testLocationAPIs", "(", ")">>,
       <<"@">> \o FileDemo \o <<":", "12", ":", " ", "Index", ".", "build", "(", ")">>,
       <<"@">> \o FileTest \o <<":", " ", "TestMultipleAPIs", ".", "testWithoutTryCatch", "(", ")">> >>

\* position of the first token equal to c at or after position i, 0 when none
RECURSIVE IndexFrom(_, _, _)
IndexFrom(text, c, i) ==
    IF i > Len(text) THEN 0
    ELSE IF text[i] = c THEN i ELSE IndexFrom(text, c, i + 1)

\* methodSigStr.match(/@([^:]+):/) : the text between the leftmost "@" that is
\* followed by at least one non-colon character and the next ":"
MatchFileName(sig) ==
    LET hits == {i \in 1..Len(sig) :
                    /\ sig[i] = "@"
                    /\ i + 1 <= Len(sig) /\ sig[i + 1] # ":"
                    /\ IndexFrom(sig, ":", i + 1) # 0}
    IN  IF hits = {} THEN Undefined
        ELSE LET i == CHOOSE k \in hits : \A m \in hits : k <= m
             IN  Some(SubSeq(sig, i + 1, IndexFrom(sig, ":", i + 1) - 1))

\* methodSigStr.match(/@[^:]+:(\d+):/)
MatchSigLine(sig) ==
    LET colon(i) == IndexFrom(sig, ":", i + 1)
        hits == {i \in 1..Len(sig) :
                    /\ sig[i] = "@"
                    /\ i + 1 <= Len(sig) /\ sig[i + 1] # ":"
                    /\ colon(i) # 0
                    /\ colon(i) + 2 <= Len(sig)
                    /\ sig[colon(i) + 1] \in DigitTokens
                    /\ sig[colon(i) + 2] = ":"}
    IN  IF hits = {} THEN Undefined
        ELSE Some(sig[colon(CHOOSE k \in hits : \A m \in hits : k <= m) + 1])

NameChars(t) == t \notin {".", "(", ")"}

\* /\.([^.()]+)\([^)]*\)$/ matched at the dot in position d: the name ends at
\* the first "(" after d, and that "(" is closed only by the last character
MatchesAtDot(sig, d) ==
    LET o == IndexFrom(sig, "(", d + 1)
    IN  /\ sig[d] = "."
        /\ o > d + 1
        /\ \A k \in (d + 1)..(o - 1) : NameChars(sig[k])
        /\ IndexFrom(sig, ")", o + 1) = Len(sig)

\* lastPart.replace(/\([^)]*\)$/, '') : drop a parenthesis group that ends the text
StripParens(text) ==
    LET hits == {o \in 1..Len(text) :
                    text[o] = "(" /\ IndexFrom(text, ")", o + 1) = Len(text)}
    IN  IF hits = {} THEN text
        ELSE SubSeq(text, 1, (CHOOSE k \in hits : \A m \in hits : k <= m) - 1)

\* text after the last "." (split('.') and take the last part)
LastPart(text) ==
    LET dots == {i \in 1..Len(text) : text[i] = "."}
    IN  IF dots = {} THEN text
        ELSE SubSeq(text, (CHOOSE k \in dots : \A m \in dots : k >= m) + 1, Len(text))

extractMethodName(methodSignature) ==
    LET hits == {d \in 1..Len(methodSignature) : MatchesAtDot(methodSignature, d)}
    IN  IF hits # {}
        THEN LET d == CHOOSE k \in hits : \A m \in hits : k <= m
             IN  SubSeq(methodSignature, d + 1, IndexFrom(methodSignature, "(", d + 1) - 1)
        ELSE StripParens(LastPart(methodSignature))

(* ---------------------------------------------------------------------- *)
(* Source files and the source-scan fallback                               *)
(* ---------------------------------------------------------------------- *)
FileNames == {FileDemo, FileTest}

Whitespace == {" ", "  "}

RECURSIVE TrimStart(_)
TrimStart(line) ==
    IF line # <<>> /\ Head(line) \in Whitespace THEN TrimStart(Tail(line)) ELSE line

\* the tokens whose text begins with the given characters
TokensStarting(chars) ==
    CASE chars = "*" -> {"*", "*/"}
      [] chars = "//" -> {"//"}

\* trimmedLine.startsWith(chars)
StartsWith(line, chars) == line # <<>> /\ Head(line) \in TokensStarting(chars)

\* the first lines of resources/demo_project/demo.ts
DemoSource ==
    << <<"//", "comment">>,
       <<"import">>,
       <<>>,
       <<"class ", "Index", " ", "{">>,
       <<"  ", "async ", "checkIn", "(", ")", " ", "{">>,
       <<"  ", "try", " ", "{">>,
       <<"  ", "//", "comment">>,
       <<"  ", "const", " ", "geoLocationManager", ".", "getCurrentLocation", "(", ")", ";">>,
       <<"  ", "console", ".", "log", "(", ")", ";">> >>

\* what the file system holds for each file name: Undefined when the file
\* (or the configuration that locates it) cannot be read
DemoFiles == [f \in FileNames |-> IF f = FileDemo THEN Some(DemoSource) ELSE Undefined]

\* the second file of the demo project (lines 22-67 of demo.ts, shortened):
\* two methods that both call getCurrentLocation
TestSource ==
    << <<"//", "comment">>,
       <<"import">>,
       <<>>,
       <<"class ", "TestMultipleAPIs", " ", "{">>,
       <<"  ", "async ", "testLocationAPIs", "(", ")", " ", "{">>,
       <<"  ", "if", " ", "(", "geoLocationManager", ".", "canIUse", "(", ")", ")", " ", "{">>,
       <<"  ", "const", " ", "geoLocationManager", ".", "getCurrentLocation", "(", ")", ";">>,
       <<"  ", "}">>,
       <<"  ", "testWithoutTryCatch", "(", ")", " ", "{">>,
       <<"  ", "geoLocationManager", ".", "getCurrentLocation", "(", ")", ";">> >>

BothFiles == [f \in FileNames |-> IF f = FileDemo THEN Some(DemoSource) ELSE Some(TestSource)]

\* a source file whose comments mention the call before the call itself
CommentedSource ==
    << <<"//", " ", "getCurrentLocation", "(", ")">>,
       <<"/**", " ", "getCurrentLocation", "(", ")">>,
       <<" ", "*", " ", "getCurrentLocation", "(", ")">>,
       <<" ", "*/">>,
       <<"class ", "Index", " ", "{">>,
       <<"  ", "async ", "checkIn", "(", ")", " ", "{">>,
       <<"  ", "geoLocationManager", ".", "getCurrentLocation", "(", ")", ";">> >>

CommentedFiles ==
    [f \in FileNames |-> IF f = FileDemo THEN Some(CommentedSource) ELSE Undefined]

\* no file can be read (the project configuration is missing or unreadable)
NoFiles == [f \in FileNames |-> Undefined]

IsMethodBoundary(prevLine) ==
    \/ "async " \in Range(prevLine)
    \/ "function " \in Range(prevLine)
    \/ ("(" \in Range(prevLine) /\ ")" \in Range(prevLine) /\ "{" \in Range(prevLine))

\* the backward loop "for (j = i; j >= 0; j--)" from line j (1-based here):
\* TRUE when a line naming the method is reached before a boundary
RECURSIVE ConfirmsScope(_, _, _, _)
ConfirmsScope(lines, methodName, i, j) ==
    IF j < 1 THEN FALSE
    ELSE LET prevLine == TrimStart(lines[j])
         IN  IF Includes(prevLine, methodName) /\ "(" \in Range(prevLine) THEN TRUE
             ELSE IF j < i /\ IsMethodBoundary(prevLine) THEN FALSE
             ELSE ConfirmsScope(lines, methodName, i, j - 1)

IsCandidateLine(line, apiName) ==
    /\ Includes(line, <<apiName>>)
    /\ "(" \in Range(line)
    /\ ~StartsWith(TrimStart(line), "//")
    /\ ~StartsWith(TrimStart(line), "*")

findApiLineNumber(fs, fileName, apiName, methodName) ==
    IF fileName \notin DOMAIN fs \/ fs[fileName] = Undefined THEN Undefined
    ELSE LET lines == fs[fileName][1]
             cands == {i \in 1..Len(lines) : IsCandidateLine(lines[i], apiName)}
         IN  IF cands = {} THEN Undefined
             ELSE LET i == CHOOSE k \in cands : \A m \in cands : k <= m
                  IN  IF ConfirmsScope(lines, methodName, i, i)
                      THEN Some(i)
                      ELSE Some(i)

(* ---------------------------------------------------------------------- *)
(* Program representation supplied by the provider                         *)
(* ---------------------------------------------------------------------- *)
\* getLocation() of an expression or statement
NoLocation == [st |-> "none", line |-> 0]
LocationThrows == [st |-> "throw", line |-> 0]
LocationAt(n) == [st |-> "ok", line |-> n]

\* an invoke expression whose callee resolves to name
Invoke(name, args, text, loc) ==
    [kind |-> "invoke", sig |-> "ok", name |-> name, argsThrow |-> FALSE,
     args |-> args, text |-> text, loc |-> loc]

Call(name) == Invoke(name, <<>>, Some(<<name, "(", ")">>), NoLocation)

CallAt(name, digits) ==
    Invoke(name, <<>>, Some(<<"@", "f", ":", digits, ":", "3", name, "(", ")">>), NoLocation)

Guard(argText) ==
    Invoke(GuardName, <<Some(argText)>>, Some(<<GuardName, "(">> \o argText \o <<")">>),
           NoLocation)

\* getMethodSignature() returns null
NullSignature(name) == [Call(name) EXCEPT !.sig = "null"]

\* getMethodSignature() raises
SignatureThrows(name) == [Call(name) EXCEPT !.sig = "throw"]

\* an expression that is no static or instance invoke
OtherExpr == [Call("helper") EXCEPT !.kind = "other"]

\* a statement: reads = "throw" when getExprs() or toString() of the statement raises
Stmt(text, exprs) == [text |-> text, loc |-> NoLocation, exprs |-> exprs, reads |-> "ok"]

UnreadableStmt == [Stmt(<<>>, <<>>) EXCEPT !.reads = "throw"]

\* tokens that contain the marker as a substring
Containing(marker) ==
    CASE marker = "caughtexception" -> {"caughtexception"}
      [] marker = "caught" -> {"caught", "caughtexception"}
      [] marker = "throw" -> {"throw", "rethrow"}

TextIncludes(text, marker) == Range(text) \cap Containing(marker) # {}

HasExceptionMarker(stmtStr) ==
    \/ TextIncludes(stmtStr, "caughtexception")
    \/ TextIncludes(stmtStr, "caught")
    \/ TextIncludes(stmtStr, "throw")

(* ---------------------------------------------------------------------- *)
(* analyzeApiCallsByMethod: first pass over the statements of one method   *)
(* ---------------------------------------------------------------------- *)
IsInvoke(expr) == expr.kind = "invoke"

\* getMethodSignature() gave a signature and getMethodName() a name
Resolves(expr) == expr.sig = "ok"

\* the loop over getArgs(): each argument text adds its first capability
\* token; an argument whose toString() raises ends the loop
RECURSIVE ArgCapabilities(_)
ArgCapabilities(args) ==
    IF args = <<>> THEN {}
    ELSE IF Head(args) = Undefined THEN {}
    ELSE LET match == MatchCapability(Head(args)[1])
         IN  (IF match # Undefined THEN {match[1]} ELSE {}) \cup ArgCapabilities(Tail(args))

\* state of the method's accumulators when its statement loop starts
NewMethodFacts ==
    [methodCanIUseCalls |-> {}, methodHasTryCatch |-> FALSE, methodApiCalls |-> <<>>]

\* faulty variant: the flag is assigned from every statement
UpdateTryCatchLast(flag, stmtStr) == HasExceptionMarker(stmtStr)

\* "if (stmtStr.includes(...)) methodHasTryCatch = true"
UpdateTryCatch(flag, stmtStr) == IF HasExceptionMarker(stmtStr) THEN TRUE ELSE flag

\* faulty variant: a guard call counts only when no API call was seen before it
CollectExprDominating(cat, facts, expr) ==
    IF ~IsInvoke(expr) \/ ~Resolves(expr) THEN facts
    ELSE IF expr.name \in excludedMethods THEN facts
    ELSE IF expr.name = GuardName
         THEN IF expr.argsThrow \/ facts.methodApiCalls # <<>> THEN facts
              ELSE [facts EXCEPT !.methodCanIUseCalls = @ \cup ArgCapabilities(expr.args)]
    ELSE IF TruthyStr(getSystemCapability(cat, expr.name))
         THEN [facts EXCEPT !.methodApiCalls = Append(@, expr.name)]
    ELSE facts

\* body of "for (const expr of exprs)" in the first pass
CollectExpr(cat, facts, expr) ==
    IF ~IsInvoke(expr) \/ ~Resolves(expr) THEN facts
    ELSE IF expr.name \in excludedMethods THEN facts
    ELSE IF expr.name = GuardName
         THEN IF expr.argsThrow THEN facts
              ELSE [facts EXCEPT !.methodCanIUseCalls = @ \cup ArgCapabilities(expr.args)]
    ELSE IF TruthyStr(getSystemCapability(cat, expr.name))
         THEN [facts EXCEPT !.methodApiCalls = Append(@, expr.name)]
    ELSE facts

RECURSIVE CollectExprs(_, _, _)
CollectExprs(cat, facts, exprs) ==
    IF exprs = <<>> THEN facts
    ELSE CollectExprs(cat, CollectExpr(cat, facts, Head(exprs)), Tail(exprs))

\* body of the first "for (const stmt of stmts)"
CollectStmt(cat, facts, stmt) ==
    CollectExprs(cat,
                 [facts EXCEPT !.methodHasTryCatch = UpdateTryCatch(@, stmt.text)],
                 stmt.exprs)

RECURSIVE CollectStmts(_, _, _)
CollectStmts(cat, facts, stmts) ==
    IF stmts = <<>> THEN facts
    ELSE CollectStmts(cat, CollectStmt(cat, facts, Head(stmts)), Tail(stmts))

(* ---------------------------------------------------------------------- *)
(* analyzeApiCallsByMethod: second pass, sightings with their location     *)
(* ---------------------------------------------------------------------- *)
\* faulty variant: the provider's position is taken whenever there is one
FromLocationAlways(lineNumber, loc) ==
    IF loc.st = "ok" THEN Some(loc.line) ELSE lineNumber

\* "location && location.getLineNumber" succeeded: the line, else the old value
FromLocation(lineNumber, loc) ==
    IF ~TruthyNum(lineNumber) /\ loc.st = "ok" THEN Some(loc.line) ELSE lineNumber

\* the inner try block that fills lineNumber and fileName of one sighting
ResolveLocation(fs, methodSignature, stmt, expr, methodName) ==
    IF expr.text = Undefined
    THEN [lineNumber |-> Undefined, fileName |-> Undefined]
    ELSE LET exprMatch == MatchLineToken(expr.text[1])
             lineMatch == IF exprMatch = Undefined THEN MatchLineToken(stmt.text)
                          ELSE exprMatch
             l1 == IF lineMatch # Undefined THEN Some(parseInt(lineMatch[1])) ELSE Undefined
             l2 == FromLocation(l1, expr.loc)
             l3 == FromLocation(l2, stmt.loc)
             fileMatch == MatchFileName(methodSignature)
             fileName == IF fileMatch # Undefined THEN fileMatch[1] ELSE Undefined
             locationMatch == MatchSigLine(methodSignature)
             l4 == IF ~TruthyNum(l3) /\ locationMatch # Undefined
                   THEN Some(parseInt(locationMatch[1])) ELSE l3
             l5 == IF ~TruthyNum(l4) /\ TruthyStr(fileName)
                   THEN findApiLineNumber(fs, fileName, methodName,
                                          extractMethodName(methodSignature))
                   ELSE l4
         IN  [lineNumber |-> l5, fileName |-> fileName]

\* faulty variant: the second pass lacks the exclusion test
SightingsOfExprNoExclusion(cat, fs, methodSignature, stmt, expr) ==
    IF ~IsInvoke(expr) \/ ~Resolves(expr) THEN <<>>
    ELSE IF expr.name = GuardName THEN <<>>
    ELSE IF TruthyStr(getSystemCapability(cat, expr.name))
         THEN LET at == ResolveLocation(fs, methodSignature, stmt, expr, expr.name)
              IN  << [api |-> expr.name, lineNumber |-> at.lineNumber,
                      fileName |-> at.fileName] >>
    ELSE <<>>

\* faulty variant: the second pass lacks the test for the guard function
SightingsOfExprGuardAsApi(cat, fs, methodSignature, stmt, expr) ==
    IF ~IsInvoke(expr) \/ ~Resolves(expr) THEN <<>>
    ELSE IF expr.name \in excludedMethods THEN <<>>
    ELSE IF TruthyStr(getSystemCapability(cat, expr.name))
         THEN LET at == ResolveLocation(fs, methodSignature, stmt, expr, expr.name)
              IN  << [api |-> expr.name, lineNumber |-> at.lineNumber,
                      fileName |-> at.fileName] >>
    ELSE <<>>

\* faulty variant: a sighting is recorded only when a line number was found
SightingsOfExprLocatedOnly(cat, fs, methodSignature, stmt, expr) ==
    IF ~IsInvoke(expr) \/ ~Resolves(expr) THEN <<>>
    ELSE IF expr.name = GuardName THEN <<>>
    ELSE IF expr.name \in excludedMethods THEN <<>>
    ELSE IF TruthyStr(getSystemCapability(cat, expr.name))
         THEN LET at == ResolveLocation(fs, methodSignature, stmt, expr, expr.name)
              IN  IF TruthyNum(at.lineNumber)
                  THEN << [api |-> expr.name, lineNumber |-> at.lineNumber,
                           fileName |-> at.fileName] >>
                  ELSE <<>>
    ELSE <<>>

\* body of "for (const expr of exprs)" in the second pass: the sightings
\* pushed to apiCallsWithLocation for one expression
SightingsOfExpr(cat, fs, methodSignature, stmt, expr) ==
    IF ~IsInvoke(expr) \/ ~Resolves(expr) THEN <<>>
    ELSE IF expr.name = GuardName THEN <<>>
    ELSE IF expr.name \in excludedMethods THEN <<>>
    ELSE IF TruthyStr(getSystemCapability(cat, expr.name))
         THEN LET at == ResolveLocation(fs, methodSignature, stmt, expr, expr.name)
              IN  << [api |-> expr.name, lineNumber |-> at.lineNumber,
                      fileName |-> at.fileName] >>
    ELSE <<>>

\* faulty variant: the handler encloses the loop, an unresolved callee ends
\* the statement's expression loop
RECURSIVE SightingsOfExprsUnresolvedEnds(_, _, _, _, _)
SightingsOfExprsUnresolvedEnds(cat, fs, methodSignature, stmt, exprs) ==
    IF exprs = <<>> THEN <<>>
    ELSE IF IsInvoke(Head(exprs)) /\ ~Resolves(Head(exprs)) THEN <<>>
    ELSE SightingsOfExpr(cat, fs, methodSignature, stmt, Head(exprs))
            \o SightingsOfExprsUnresolvedEnds(cat, fs, methodSignature, stmt, Tail(exprs))

RECURSIVE SightingsOfExprs(_, _, _, _, _)
SightingsOfExprs(cat, fs, methodSignature, stmt, exprs) ==
    IF exprs = <<>> THEN <<>>
    ELSE SightingsOfExpr(cat, fs, methodSignature, stmt, Head(exprs))
            \o SightingsOfExprs(cat, fs, methodSignature, stmt, Tail(exprs))

RECURSIVE SightingsOfStmts(_, _, _, _)
SightingsOfStmts(cat, fs, methodSignature, stmts) ==
    IF stmts = <<>> THEN <<>>
    ELSE SightingsOfExprs(cat, fs, methodSignature, Head(stmts), Head(stmts).exprs)
            \o SightingsOfStmts(cat, fs, methodSignature, Tail(stmts))

(* ---------------------------------------------------------------------- *)
(* analyzeApiCallsByMethod: de-duplication and the findings of one method  *)
(* ---------------------------------------------------------------------- *)
\* faulty variant: the location of the last sighting of the API is taken
FindLastLocation(apiCallsWithLocation, apiName) ==
    apiCallsWithLocation[CHOOSE i \in 1..Len(apiCallsWithLocation) :
        /\ apiCallsWithLocation[i].api = apiName
        /\ \A k \in (i + 1)..Len(apiCallsWithLocation) : apiCallsWithLocation[k].api # apiName]

\* apiCallsWithLocation.find(item => item.api === apiName)
FindLocation(apiCallsWithLocation, apiName) ==
    apiCallsWithLocation[CHOOSE i \in 1..Len(apiCallsWithLocation) :
        /\ apiCallsWithLocation[i].api = apiName
        /\ \A k \in 1..(i - 1) : apiCallsWithLocation[k].api # apiName]

\* faulty variant: a collected capability that starts the required one is accepted
HasCapabilityByPrefix(methodCanIUseCalls, requiredSysCap) ==
    \E c \in methodCanIUseCalls : IsPrefix(c, requiredSysCap)

\* methodCanIUseCalls.has(requiredSysCap)
HasCapability(methodCanIUseCalls, requiredSysCap) == requiredSysCap \in methodCanIUseCalls

uniqueApiCalls(apiCallsWithLocation) ==
    UniqueInOrder([i \in 1..Len(apiCallsWithLocation) |-> apiCallsWithLocation[i].api])

ApiCallInfoOf(cat, facts, apiCallsWithLocation, methodSignature, apiName) ==
    LET requiredSysCap == getSystemCapability(cat, apiName)
        apiLocation == FindLocation(apiCallsWithLocation, apiName)
    IN  [methodName |-> apiName,
         requiredSysCap |-> requiredSysCap,
         hasCanIUse |-> Cardinality(facts.methodCanIUseCalls) > 0,
         hasCorrectCanIUse |-> HasCapability(facts.methodCanIUseCalls, requiredSysCap),
         isTryCatchWrapped |-> facts.methodHasTryCatch,
         foundInMethod |-> methodSignature,
         lineNumber |-> apiLocation.lineNumber,
         fileName |-> apiLocation.fileName]

RECURSIVE ApiCallInfosOf(_, _, _, _, _)
ApiCallInfosOf(cat, facts, apiCallsWithLocation, methodSignature, names) ==
    IF names = <<>> THEN <<>>
    ELSE <<ApiCallInfoOf(cat, facts, apiCallsWithLocation, methodSignature, Head(names))>>
            \o ApiCallInfosOf(cat, facts, apiCallsWithLocation, methodSignature, Tail(names))

RECURSIVE AllStmts(_)
AllStmts(methods) ==
    IF methods = <<>> THEN <<>>
    ELSE (IF Head(methods).body = Undefined THEN <<>> ELSE Head(methods).body[1])
            \o AllStmts(Tail(methods))

\* faulty variant: guards and markers are collected over the whole scene
FactStmtsOfScene(methods, mi) == AllStmts(methods)

\* faulty variant: the accumulators are declared before the method loop, a
\* method inherits the guards and markers of the methods enumerated before it
FactStmtsCarriedOver(methods, mi) == AllStmts(SubSeq(methods, 1, mi))

\* the statements whose guards and markers count for method mi
FactStmts(methods, mi) == methods[mi].body[1]

\* getExprs() or toString() of a statement of method mi raises: the loops over
\* the statements have no handler, the exception leaves analyzeApiCallsByMethod
MethodRaises(methods, mi) ==
    /\ methods[mi].body # Undefined
    /\ \E j \in 1..Len(methods[mi].body[1]) : methods[mi].body[1][j].reads = "throw"

\* faulty variant: a method without body ends the loop ("break" for "continue")
MethodFindingsStopAtNoBody(cat, fs, methods, mi) ==
    IF \E k \in 1..mi : methods[k].body = Undefined THEN <<>>
    ELSE LET stmts == methods[mi].body[1]
             methodSignature == methods[mi].signature
             facts == CollectStmts(cat, NewMethodFacts, FactStmts(methods, mi))
             apiCallsWithLocation == SightingsOfStmts(cat, fs, methodSignature, stmts)
         IN  ApiCallInfosOf(cat, facts, apiCallsWithLocation, methodSignature,
                            uniqueApiCalls(apiCallsWithLocation))

\* one iteration of "for (const method of methods)": the ApiCallInfo values
\* pushed for method mi.  A method is [signature, body]; body Undefined = no body
MethodFindings(cat, fs, methods, mi) ==
    IF methods[mi].body = Undefined THEN <<>>
    ELSE LET stmts == methods[mi].body[1]
             methodSignature == methods[mi].signature
             facts == CollectStmts(cat, NewMethodFacts, FactStmts(methods, mi))
             apiCallsWithLocation == SightingsOfStmts(cat, fs, methodSignature, stmts)
         IN  ApiCallInfosOf(cat, facts, apiCallsWithLocation, methodSignature,
                            uniqueApiCalls(apiCallsWithLocation))

RECURSIVE FindingsFrom(_, _, _, _)
FindingsFrom(cat, fs, methods, mi) ==
    IF mi > Len(methods) THEN <<>>
    ELSE MethodFindings(cat, fs, methods, mi) \o FindingsFrom(cat, fs, methods, mi + 1)

analyzeApiCallsByMethod(cat, fs, methods) == FindingsFrom(cat, fs, methods, 1)

(* ---------------------------------------------------------------------- *)
(* analyze: classification, recommendations, summary                       *)
(* ---------------------------------------------------------------------- *)
\* faulty variant: any guard call, even one for another capability, counts as the guard
SeverityByAnyGuard(apiInfo) ==
    IF ~apiInfo.hasCanIUse /\ ~apiInfo.isTryCatchWrapped THEN "SEVERE"
    ELSE IF ~apiInfo.hasCanIUse THEN "ADVISORY"
    ELSE "COMPLIANT"

Severity(apiInfo) ==
    IF ~apiInfo.hasCorrectCanIUse /\ ~apiInfo.isTryCatchWrapped THEN "SEVERE"
    ELSE IF ~apiInfo.hasCorrectCanIUse THEN "ADVISORY"
    ELSE "COMPLIANT"

RECURSIVE SelectSeverity(_, _)
SelectSeverity(apiCallInfos, class) ==
    IF apiCallInfos = <<>> THEN <<>>
    ELSE (IF Severity(Head(apiCallInfos)) = class THEN <<Head(apiCallInfos)>> ELSE <<>>)
            \o SelectSeverity(Tail(apiCallInfos), class)

\* the three local lists the classification loop fills
Classify(apiCallInfos) ==
    [severeIssues |-> SelectSeverity(apiCallInfos, "SEVERE"),
     missingCanIUse |-> SelectSeverity(apiCallInfos, "ADVISORY"),
     goodPractices |-> SelectSeverity(apiCallInfos, "COMPLIANT")]

NothingClassified == [severeIssues |-> <<>>, missingCanIUse |-> <<>>, goodPractices |-> <<>>]

\* the placeholder literal of "apiInfo.fileName || ..." (non-ASCII in the source)
UnknownFile == <<"unknown-file">>

\* faulty variant: the file name is used as it is
FileNameAsIs(apiInfo) == apiInfo.fileName

\* apiInfo.fileName || placeholder
FileNameOrUnknown(apiInfo) ==
    IF TruthyStr(apiInfo.fileName) THEN apiInfo.fileName ELSE UnknownFile

\* the template literals pushed to results.recommendations; the fixed
\* (non-ASCII) words of the literals are rendered in English
SevereRecommendation(apiInfo) ==
    <<"severe: ">> \o FileNameOrUnknown(apiInfo) \o <<" in ">>
        \o extractMethodName(apiInfo.foundInMethod)
        \o <<" method: ", apiInfo.methodName, "()", " lacks canIUse and try-catch">>

AdvisoryRecommendation(apiInfo) ==
    <<"advice: ">> \o FileNameOrUnknown(apiInfo) \o <<" in ">>
        \o extractMethodName(apiInfo.foundInMethod)
        \o <<" method: ", apiInfo.methodName, "()", " add canIUse check">>

RECURSIVE SevereRecommendations(_)
SevereRecommendations(infos) ==
    IF infos = <<>> THEN <<>>
    ELSE <<SevereRecommendation(Head(infos))>> \o SevereRecommendations(Tail(infos))

RECURSIVE AdvisoryRecommendations(_)
AdvisoryRecommendations(infos) ==
    IF infos = <<>> THEN <<>>
    ELSE <<AdvisoryRecommendation(Head(infos))>> \o AdvisoryRecommendations(Tail(infos))

\* faulty variant: the loop over missingCanIUse runs before the loop over severeIssues
NewRecommendationsAdvisoryFirst(lists) ==
    AdvisoryRecommendations(lists.missingCanIUse)
        \o SevereRecommendations(lists.severeIssues)

\* the strings one run pushes to results.recommendations, in push order
NewRecommendations(lists) ==
    SevereRecommendations(lists.severeIssues)
        \o AdvisoryRecommendations(lists.missingCanIUse)

CountWhere(apiCallInfos, field) ==
    Cardinality({i \in 1..Len(apiCallInfos) : apiCallInfos[i][field]})

\* faulty variant: "uses canIUse" counts the findings guarded for other
\* capabilities only
SummaryOfWrongGuardOnly(apiCallInfos) ==
    [totalApiCalls |->
        Len(UniqueInOrder([i \in 1..Len(apiCallInfos) |-> apiCallInfos[i].methodName])),
     apisWithCanIUse |->
        Cardinality({i \in 1..Len(apiCallInfos) :
                        apiCallInfos[i].hasCanIUse /\ ~apiCallInfos[i].hasCorrectCanIUse}),
     apisWithCorrectCanIUse |-> CountWhere(apiCallInfos, "hasCorrectCanIUse"),
     apisWithTryCatch |-> CountWhere(apiCallInfos, "isTryCatchWrapped")]

\* faulty variant: only a guard for the required capability counts as "uses canIUse"
SummaryOfCorrectOnly(apiCallInfos) ==
    [totalApiCalls |->
        Len(UniqueInOrder([i \in 1..Len(apiCallInfos) |-> apiCallInfos[i].methodName])),
     apisWithCanIUse |-> CountWhere(apiCallInfos, "hasCorrectCanIUse"),
     apisWithCorrectCanIUse |-> CountWhere(apiCallInfos, "hasCorrectCanIUse"),
     apisWithTryCatch |-> CountWhere(apiCallInfos, "isTryCatchWrapped")]

SummaryOf(apiCallInfos) ==
    [totalApiCalls |->
        Len(UniqueInOrder([i \in 1..Len(apiCallInfos) |-> apiCallInfos[i].methodName])),
     apisWithCanIUse |-> CountWhere(apiCallInfos, "hasCanIUse"),
     apisWithCorrectCanIUse |-> CountWhere(apiCallInfos, "hasCorrectCanIUse"),
     apisWithTryCatch |-> CountWhere(apiCallInfos, "isTryCatchWrapped")]

ErrorRecommendation == <<"analysis error">>

\* the initializer of the field "results"
EmptyResults ==
    [apiCalls |-> <<>>,
     recommendations |-> <<>>,
     summary |-> [totalApiCalls |-> 0, apisWithCanIUse |-> 0,
                  apisWithCorrectCanIUse |-> 0, apisWithTryCatch |-> 0]]

(* ---------------------------------------------------------------------- *)
(* Inputs: the scenes the provider may build                               *)
(* ---------------------------------------------------------------------- *)
ApiWithLineToken == Stmt(<<"instanceinvoke">>, <<CallAt("getCurrentLocation", "5")>>)
ApiWithoutLine == Stmt(<<"instanceinvoke">>, <<Call("getCurrentLocation")>>)
CorrectGuard == Stmt(<<"if">>, <<Guard(Quote(CapLocationCore))>>)
NearMissGuards ==
    Stmt(<<"if">>, <<Guard(Quote(CapLocation)), Guard(Quote(CapLocationCoreLite))>>)
CatchWithLog == Stmt(<<"caughtexception">>, <<Call("log")>>)
\* toString() of the first expression raises; the second one does not resolve
OtherApiAndUnresolved ==
    Stmt(<<"instanceinvoke">>,
         <<[Call("getLastLocation") EXCEPT !.text = Undefined],
           SignatureThrows("getCurrentLocation")>>)

StmtPool ==
    {ApiWithLineToken, ApiWithoutLine, CorrectGuard, NearMissGuards, CatchWithLog,
     OtherApiAndUnresolved}

\* getMethods(): the k-th method carries the k-th signature
SceneOf(bodies) ==
    [k \in 1..Len(bodies) |-> [signature |-> MethodSignatures[k], body |-> bodies[k]]]

\* a shape gives each method the number of its statements, -1 for "no body"
RECURSIVE TotalStmts(_)
TotalStmts(shape) ==
    IF shape = <<>> THEN 0
    ELSE (IF Head(shape) > 0 THEN Head(shape) ELSE 0) + TotalStmts(Tail(shape))

Shapes == {sh \in SeqsUpTo(-1..MaxStmts, MaxMethods) : TotalStmts(sh) <= MaxStmts}

\* the bodies of a shape, cut from the statement sequence ss in method order
RECURSIVE CutBodies(_, _)
CutBodies(shape, ss) ==
    IF shape = <<>> THEN <<>>
    ELSE IF Head(shape) < 0 THEN <<Undefined>> \o CutBodies(Tail(shape), ss)
    ELSE <<Some(SubSeq(ss, 1, Head(shape)))>>
            \o CutBodies(Tail(shape), SubSeq(ss, Head(shape) + 1, Len(ss)))

\* scene is one the provider can build from statements of the pool
IsScene(methods, pool) ==
    \E sh \in Shapes : \E ss \in [1..TotalStmts(sh) -> pool] :
        methods = SceneOf(CutBodies(sh, ss))

\* statements for the statement-by-statement walk of one method
ThrowStmt == Stmt(<<"throw">>, <<>>)
RethrowCall == Stmt(<<"rethrow">>, <<Call("helper")>>)
CaughtStmt == Stmt(<<"caught">>, <<Call("getLastLocation")>>)

\* a guard call for which the provider returns no signature, a call whose
\* getMethodSignature() raises, then a call that resolves
UnresolvedThenApi ==
    Stmt(<<"instanceinvoke">>,
         <<[Guard(Quote(CapLocationCore)) EXCEPT !.sig = "null"],
           SignatureThrows("getLastLocation"),
           Call("getCurrentLocation")>>)

WalkPool ==
    {ApiWithoutLine, CorrectGuard, CatchWithLog, ThrowStmt, RethrowCall, CaughtStmt,
     UnresolvedThenApi}

\* scene is a single method with a body over the pool
IsWalkScene(methods, pool) ==
    \E n \in 0..MaxWalk : \E ss \in [1..n -> pool] : methods = SceneOf(<<Some(ss)>>)

(* ---------------------------------------------------------------------- *)
(* State                                                                   *)
(* ---------------------------------------------------------------------- *)
VARIABLES
    catalog,        \* API_TO_SYSCAP of this program
    files,          \* the source files findApiLineNumber can read
    scene,          \* the methods buildScene yields
    pc,             \* position inside analyze: "idle", "methods", "walk"
    runs,           \* number of analyze calls made (the program makes one)
    outcome,        \* how the last analyze call ended
    mi,             \* index of the method the loop is about to take
    apiCallInfos,   \* the local list analyzeApiCallsByMethod fills
    results,        \* the field this.results
    classified,     \* analyze's local lists severeIssues, missingCanIUse, goodPractices
    si,             \* walk: index of the statement the first loop is about to take
    facts,          \* walk: methodCanIUseCalls, methodHasTryCatch, methodApiCalls
    returned,       \* what each call of analyze or getResults handed to its caller
    saved,          \* saveToFile has written the output file
    loc             \* locals lineNumber, fileName of the sighting being located

vars ==
    <<catalog, files, scene, pc, runs, outcome, mi, apiCallInfos, results, classified,
      si, facts, returned, saved, loc>>

\* lineNumber and fileName as declared, before the location block runs; reads
\* counts the calls of findApiLineNumber
NotLocated == [lineNumber |-> Undefined, fileName |-> Undefined, reads |-> 0]

\* the caller's view of one call: the operation, whether buildScene returned,
\* the scene it built, how the call ended and the content of the object
\* (this.results) it returned at that moment
Returned(op, built, how, report) ==
    [op |-> op, built |-> built, input |-> IF built THEN Some(scene) ELSE Undefined,
     outcome |-> how, report |-> report]

inputs == <<catalog, files, scene>>

Init ==
    /\ catalog \in Catalogs
    /\ files = DemoFiles
    /\ IsScene(scene, StmtPool)
    /\ pc = "idle"
    /\ runs = 0
    /\ outcome = "none"
    /\ mi = 0
    /\ apiCallInfos = <<>>
    /\ results = EmptyResults
    /\ classified = NothingClassified
    /\ si = 0
    /\ facts = NewMethodFacts
    /\ returned = <<>>
    /\ saved = FALSE
    /\ loc = NotLocated

(* ---------------------------------------------------------------------- *)
(* analyze, one action per step                                            *)
(* ---------------------------------------------------------------------- *)
\* buildScene succeeded: analyzeApiCallsByMethod starts with an empty list
analyze_buildScene ==
    /\ pc = "idle"
    /\ runs = 0
    /\ pc' = "methods"
    /\ runs' = runs + 1
    /\ outcome' = "running"
    /\ mi' = 1
    /\ apiCallInfos' = <<>>
    /\ classified' = NothingClassified
    /\ UNCHANGED <<inputs, results, si, facts, returned, saved, loc>>

\* buildScene raised: the catch block pushes the error entry, analyze returns
analyze_buildSceneFails ==
    /\ pc = "idle"
    /\ runs = 0
    /\ runs' = runs + 1
    /\ outcome' = "aborted"
    /\ results' = [results EXCEPT !.recommendations = Append(@, ErrorRecommendation)]
    /\ returned' = Append(returned, Returned("analyze", FALSE, "aborted", results'))
    /\ UNCHANGED <<inputs, pc, mi, apiCallInfos, classified, si, facts, saved, loc>>

\* one iteration of "for (const method of methods)"
analyze_method ==
    /\ pc = "methods"
    /\ mi <= Len(scene)
    /\ ~MethodRaises(scene, mi)
    /\ apiCallInfos' = apiCallInfos \o MethodFindings(catalog, files, scene, mi)
    /\ mi' = mi + 1
    /\ UNCHANGED <<inputs, pc, runs, outcome, results, classified, si, facts,
                   returned, saved, loc>>

\* faulty variant: a run without findings clears the findings and the counts
analyze_noFindingsCleared ==
    /\ pc = "methods"
    /\ mi > Len(scene)
    /\ apiCallInfos = <<>>
    /\ pc' = "idle"
    /\ outcome' = "empty"
    /\ results' = [results EXCEPT !.apiCalls = <<>>, !.summary = EmptyResults.summary]
    /\ returned' = Append(returned, Returned("analyze", TRUE, "empty", results'))
    /\ UNCHANGED <<inputs, runs, mi, apiCallInfos, classified, si, facts, saved, loc>>

\* "if (apiCallInfos.length === 0) return this.results"
analyze_noFindings ==
    /\ pc = "methods"
    /\ mi > Len(scene)
    /\ apiCallInfos = <<>>
    /\ pc' = "idle"
    /\ outcome' = "empty"
    /\ returned' = Append(returned, Returned("analyze", TRUE, "empty", results))
    /\ UNCHANGED <<inputs, runs, mi, apiCallInfos, results, classified, si, facts,
                   saved, loc>>

\* the rest of analyze: store the findings, classify, recommend, count
analyze_report ==
    /\ pc = "methods"
    /\ mi > Len(scene)
    /\ apiCallInfos # <<>>
    /\ classified' = Classify(apiCallInfos)
    /\ results' = [apiCalls |-> apiCallInfos,
                   recommendations |->
                       results.recommendations \o NewRecommendations(classified'),
                   summary |-> SummaryOf(apiCallInfos)]
    /\ pc' = "idle"
    /\ outcome' = "findings"
    /\ returned' = Append(returned, Returned("analyze", TRUE, "findings", results'))
    /\ UNCHANGED <<inputs, runs, mi, apiCallInfos, si, facts, saved, loc>>

Next ==
    \/ analyze_buildScene
    \/ analyze_buildSceneFails
    \/ analyze_method
    \/ analyze_noFindings
    \/ analyze_report

Spec == Init /\ [][Next]_vars

(* ---------------------------------------------------------------------- *)
(* The same analysis of a one-method scene, one statement per step         *)
(* ---------------------------------------------------------------------- *)
InitWalk ==
    /\ catalog \in Catalogs
    /\ files \in {DemoFiles, NoFiles}
    /\ IsWalkScene(scene, WalkPool)
    /\ pc = "idle"
    /\ runs = 0
    /\ outcome = "none"
    /\ mi = 0
    /\ apiCallInfos = <<>>
    /\ results = EmptyResults
    /\ classified = NothingClassified
    /\ si = 0
    /\ facts = NewMethodFacts
    /\ returned = <<>>
    /\ saved = FALSE
    /\ loc = NotLocated

\* the method loop takes method mi: its accumulators are created
walk_enterMethod ==
    /\ pc = "idle"
    /\ runs = 0
    /\ runs' = runs + 1
    /\ outcome' = "running"
    /\ pc' = "walk"
    /\ mi' = 1
    /\ si' = 1
    /\ facts' = NewMethodFacts
    /\ apiCallInfos' = <<>>
    /\ classified' = NothingClassified
    /\ UNCHANGED <<inputs, results, returned, saved, loc>>

\* one iteration of the first "for (const stmt of stmts)"
walk_stmt ==
    /\ pc = "walk"
    /\ si <= Len(scene[mi].body[1])
    /\ facts' = CollectStmt(catalog, facts, scene[mi].body[1][si])
    /\ si' = si + 1
    /\ UNCHANGED <<inputs, pc, runs, outcome, mi, apiCallInfos, results, classified,
                   returned, saved, loc>>

\* the second loop and the de-duplication, with the facts the walk collected
walk_leaveMethod ==
    /\ pc = "walk"
    /\ si > Len(scene[mi].body[1])
    /\ LET located == SightingsOfStmts(catalog, files, scene[mi].signature,
                                       scene[mi].body[1])
       IN  apiCallInfos' = apiCallInfos \o
               ApiCallInfosOf(catalog, facts, located, scene[mi].signature,
                              uniqueApiCalls(located))
    /\ pc' = "methods"
    /\ mi' = mi + 1
    /\ UNCHANGED <<inputs, runs, outcome, results, classified, si, facts, returned, saved, loc>>

NextWalk ==
    \/ walk_enterMethod
    \/ walk_stmt
    \/ walk_leaveMethod
    \/ analyze_noFindings
    \/ analyze_report

SpecWalk == InitWalk /\ [][NextWalk]_vars

(* ---------------------------------------------------------------------- *)
(* One analyzer instance used for several calls (a caller that keeps the   *)
(* instance, as the CachedAnalyzer of docs/ADVANCED.md does)               *)
(* ---------------------------------------------------------------------- *)
\* the scenes buildScene yields for the configurations the caller passes
SevereScene == SceneOf(<<Some(<<ApiWithoutLine>>)>>)
CompliantScene == SceneOf(<<Some(<<CorrectGuard, ApiWithoutLine>>)>>)
NoApiScene == SceneOf(<<Some(<<CatchWithLog>>)>>)
\* the second method holds a statement the provider cannot render
UnreadableScene == SceneOf(<<Some(<<ApiWithoutLine>>), Some(<<UnreadableStmt>>)>>)

\* a guard call whose single argument text holds two capability tokens, the
\* required one in second place
TwoTokenGuard ==
    Stmt(<<"if">>, <<Guard(Quote(CapWrong \o <<" ">> \o CapLocationCore))>>)
TwoTokenScene == SceneOf(<<Some(<<TwoTokenGuard, ApiWithoutLine>>)>>)

InstanceScenes == {SevereScene, CompliantScene, NoApiScene, UnreadableScene, TwoTokenScene}

\* "private scene: Scene | null = null": no method to enumerate yet
NoScene == <<>>

InitInstance ==
    /\ catalog = CatalogPlain
    /\ files = DemoFiles
    /\ scene = NoScene
    /\ pc = "idle"
    /\ runs = 0
    /\ outcome = "none"
    /\ mi = 0
    /\ apiCallInfos = <<>>
    /\ results = EmptyResults
    /\ classified = NothingClassified
    /\ si = 0
    /\ facts = NewMethodFacts
    /\ returned = <<>>
    /\ saved = FALSE
    /\ loc = NotLocated

\* analyze(configPath) on the instance: buildScene succeeds and this.scene is
\* replaced; this.results is the object the earlier calls left
instance_analyze ==
    /\ pc = "idle"
    /\ Len(returned) < MaxCalls
    /\ scene' \in InstanceScenes
    /\ pc' = "methods"
    /\ runs' = runs + 1
    /\ outcome' = "running"
    /\ mi' = 1
    /\ apiCallInfos' = <<>>
    /\ classified' = NothingClassified
    /\ UNCHANGED <<catalog, files, results, si, facts, returned, saved, loc>>

\* analyze(configPath) on the instance: buildScene raises, this.scene keeps its value
instance_analyzeFails ==
    /\ pc = "idle"
    /\ Len(returned) < MaxCalls
    /\ runs' = runs + 1
    /\ outcome' = "aborted"
    /\ results' = [results EXCEPT !.recommendations = Append(@, ErrorRecommendation)]
    /\ returned' = Append(returned, Returned("analyze", FALSE, "aborted", results'))
    /\ UNCHANGED <<inputs, pc, mi, apiCallInfos, classified, si, facts, saved, loc>>

\* the method loop reaches a method with a statement whose getExprs() or
\* toString() raises: the exception reaches the catch block of analyze, the
\* local list of findings is dropped
analyze_methodFails ==
    /\ pc = "methods"
    /\ mi <= Len(scene)
    /\ MethodRaises(scene, mi)
    /\ pc' = "idle"
    /\ outcome' = "aborted"
    /\ apiCallInfos' = <<>>
    /\ results' = [results EXCEPT !.recommendations = Append(@, ErrorRecommendation)]
    /\ returned' = Append(returned, Returned("analyze", TRUE, "aborted", results'))
    /\ UNCHANGED <<inputs, runs, mi, classified, si, facts, saved, loc>>

\* getResults(): "return this.results"
getResults ==
    /\ pc = "idle"
    /\ Len(returned) < MaxCalls
    /\ returned' = Append(returned, Returned("getResults", FALSE, "read", results))
    /\ UNCHANGED <<inputs, pc, runs, outcome, mi, apiCallInfos, results, classified,
                   si, facts, saved, loc>>

\* saveToFile(): writes the output buffer to the output file
saveToFile ==
    /\ pc = "idle"
    /\ saved' = TRUE
    /\ UNCHANGED <<inputs, pc, runs, outcome, mi, apiCallInfos, results, classified,
                   si, facts, returned, loc>>

NextInstance ==
    \/ instance_analyze
    \/ instance_analyzeFails
    \/ analyze_method
    \/ analyze_methodFails
    \/ analyze_noFindings
    \/ analyze_report
    \/ getResults
    \/ saveToFile

SpecInstance == InitInstance /\ [][NextInstance]_vars

(* ---------------------------------------------------------------------- *)
(* The location block of one API sighting, one fallback per step           *)
(* ---------------------------------------------------------------------- *)
\* texts of the call expression: plain, with a line token, with the token
\* ":0:", and a toString() that raises
SightingTexts ==
    {Some(<<"getCurrentLocation", "(", ")">>),
     Some(<<"@", "f", ":", "5", ":", "3", "getCurrentLocation", "(", ")">>),
     Some(<<"getCurrentLocation", "(", "'", "10", ":", "0", ":", "0", "'", ")">>),
     Undefined}

SightingStmtTexts == {<<"instanceinvoke">>, <<"instanceinvoke", ":", "8", ":">>}

\* getLineNumber() of a position the provider left unset gives -1
ExprPositions == {NoLocation, LocationThrows, LocationAt(7), LocationAt(0), LocationAt(-1)}

StmtPositions == {NoLocation, LocationAt(9)}

LocateFiles == {DemoFiles, BothFiles, CommentedFiles}

\* one method whose body is one statement with one call of getCurrentLocation
IsSightingScene(methods) ==
    \E k \in 1..Len(MethodSignatures) : \E text \in SightingTexts :
    \E stmtText \in SightingStmtTexts : \E at \in ExprPositions : \E stmtAt \in StmtPositions :
        methods = << [signature |-> MethodSignatures[k],
                      body |-> Some(<< [Stmt(stmtText,
                                             <<Invoke("getCurrentLocation", <<>>, text, at)>>)
                                        EXCEPT !.loc = stmtAt] >>)] >>

InitLocate ==
    /\ catalog = CatalogPlain
    /\ files \in LocateFiles
    /\ IsSightingScene(scene)
    /\ pc = "idle"
    /\ runs = 0
    /\ outcome = "none"
    /\ mi = 0
    /\ apiCallInfos = <<>>
    /\ results = EmptyResults
    /\ classified = NothingClassified
    /\ si = 0
    /\ facts = NewMethodFacts
    /\ returned = <<>>
    /\ saved = FALSE
    /\ loc = NotLocated

\* the statement and the call expression the second pass stands at
SightedStmt == scene[1].body[1][1]

SightedExpr == SightedStmt.exprs[1]

\* analyze reaches the API call in the second pass: the first pass over the
\* method is done, "let lineNumber, fileName" are declared
locate_sighting ==
    /\ pc = "idle"
    /\ runs = 0
    /\ runs' = runs + 1
    /\ outcome' = "running"
    /\ mi' = 1
    /\ si' = 1
    /\ facts' = CollectStmts(catalog, NewMethodFacts, scene[1].body[1])
    /\ apiCallInfos' = <<>>
    /\ classified' = NothingClassified
    /\ loc' = NotLocated
    /\ pc' = "text"
    /\ UNCHANGED <<inputs, results, returned, saved>>

\* "expr.toString()" ... "lineNumber = parseInt(lineMatch[1])"; a raising
\* toString() leaves the block through its catch
locate_fromText ==
    /\ pc = "text"
    /\ IF SightedExpr.text = Undefined
       THEN pc' = "push" /\ loc' = loc
       ELSE LET exprMatch == MatchLineToken(SightedExpr.text[1])
                lineMatch == IF exprMatch = Undefined THEN MatchLineToken(SightedStmt.text)
                             ELSE exprMatch
            IN  /\ loc' = [loc EXCEPT !.lineNumber =
                            IF lineMatch # Undefined THEN Some(parseInt(lineMatch[1])) ELSE @]
                /\ pc' = "exprPosition"
    /\ UNCHANGED <<inputs, runs, outcome, mi, apiCallInfos, results, classified, si, facts,
                   returned, saved>>

\* "if (!lineNumber && expr.getLocation)"
locate_fromExprPosition ==
    /\ pc = "exprPosition"
    /\ loc' = [loc EXCEPT !.lineNumber = FromLocation(@, SightedExpr.loc)]
    /\ pc' = "stmtPosition"
    /\ UNCHANGED <<inputs, runs, outcome, mi, apiCallInfos, results, classified, si, facts,
                   returned, saved>>

\* "if (!lineNumber && stmt.getLocation)"
locate_fromStmtPosition ==
    /\ pc = "stmtPosition"
    /\ loc' = [loc EXCEPT !.lineNumber = FromLocation(@, SightedStmt.loc)]
    /\ pc' = "fileName"
    /\ UNCHANGED <<inputs, runs, outcome, mi, apiCallInfos, results, classified, si, facts,
                   returned, saved>>

\* "const fileMatch = methodSigStr.match(...)"
locate_fileName ==
    /\ pc = "fileName"
    /\ LET fileMatch == MatchFileName(scene[1].signature)
       IN  loc' = [loc EXCEPT !.fileName = IF fileMatch # Undefined THEN fileMatch[1] ELSE @]
    /\ pc' = "signature"
    /\ UNCHANGED <<inputs, runs, outcome, mi, apiCallInfos, results, classified, si, facts,
                   returned, saved>>

\* "if (!lineNumber) { const locationMatch = ... }"
locate_fromSignature ==
    /\ pc = "signature"
    /\ LET locationMatch == MatchSigLine(scene[1].signature)
       IN  loc' = [loc EXCEPT !.lineNumber =
                    IF ~TruthyNum(@) /\ locationMatch # Undefined
                    THEN Some(parseInt(locationMatch[1])) ELSE @]
    /\ pc' = "source"
    /\ UNCHANGED <<inputs, runs, outcome, mi, apiCallInfos, results, classified, si, facts,
                   returned, saved>>

\* "if (!lineNumber && fileName) lineNumber = this.findApiLineNumber(...)"
locate_fromSource ==
    /\ pc = "source"
    /\ IF ~TruthyNum(loc.lineNumber) /\ TruthyStr(loc.fileName)
       THEN loc' = [loc EXCEPT
                    !.lineNumber = findApiLineNumber(files, loc.fileName, SightedExpr.name,
                                                     extractMethodName(scene[1].signature)),
                    !.reads = @ + 1]
       ELSE loc' = loc
    /\ pc' = "push"
    /\ UNCHANGED <<inputs, runs, outcome, mi, apiCallInfos, results, classified, si, facts,
                   returned, saved>>

\* "apiCallsWithLocation.push(...)", then the de-duplication of the method
locate_push ==
    /\ pc = "push"
    /\ LET located == << [api |-> SightedExpr.name, lineNumber |-> loc.lineNumber,
                          fileName |-> loc.fileName] >>
       IN  apiCallInfos' = ApiCallInfosOf(catalog, facts, located, scene[1].signature,
                                          uniqueApiCalls(located))
    /\ pc' = "methods"
    /\ mi' = 2
    /\ UNCHANGED <<inputs, runs, outcome, results, classified, si, facts, returned, saved, loc>>

NextLocate ==
    \/ locate_sighting
    \/ locate_fromText
    \/ locate_fromExprPosition
    \/ locate_fromStmtPosition
    \/ locate_fileName
    \/ locate_fromSignature
    \/ locate_fromSource
    \/ locate_push
    \/ analyze_report

SpecLocate == InitLocate /\ [][NextLocate]_vars

(* ====================================================================== *)
(* Properties                                                              *)
(* ====================================================================== *)
\* analyze has returned after analyzeApiCallsByMethod went over every method
Completed == pc = "idle" /\ outcome \in {"findings", "empty"}

InSeq(x, s) == \E i \in 1..Len(s) : s[i] = x

Findings(s) == {s[i] : i \in 1..Len(s)}

\* index of the method a finding was found in (signatures are unique)
MethodOf(f) == CHOOSE k \in 1..Len(scene) : scene[k].signature = f.foundInMethod

StmtsOf(methods, k) == IF methods[k].body = Undefined THEN <<>> ELSE methods[k].body[1]

\* the call expressions of method k whose callee name the provider resolves
ResolvedCalls(methods, k) ==
    {<<j, e>> \in (1..Len(StmtsOf(methods, k))) \X (1..3) :
        /\ e <= Len(StmtsOf(methods, k)[j].exprs)
        /\ StmtsOf(methods, k)[j].exprs[e].kind = "invoke"
        /\ StmtsOf(methods, k)[j].exprs[e].sig = "ok"}

ExprAt(methods, k, at) == StmtsOf(methods, k)[at[1]].exprs[at[2]]

\* the capability strings that stand in the arguments of the guard calls of method k
GuardStrings(methods, k) ==
    UNION {{MatchCapability(ExprAt(methods, k, at).args[a][1])[1] :
               a \in {b \in 1..Len(ExprAt(methods, k, at).args) :
                        MatchCapability(ExprAt(methods, k, at).args[b][1]) # Undefined}} :
           at \in {c \in ResolvedCalls(methods, k) : ExprAt(methods, k, c).name = "canIUse"}}

ClassIn(lists, f) ==
    IF InSeq(f, lists.severeIssues) THEN "SEVERE"
    ELSE IF InSeq(f, lists.missingCanIUse) THEN "ADVISORY"
    ELSE IF InSeq(f, lists.goodPractices) THEN "COMPLIANT"
    ELSE "NONE"

RECURSIVE DropGuardCalls(_)
DropGuardCalls(exprs) ==
    IF exprs = <<>> THEN <<>>
    ELSE (IF Head(exprs).kind = "invoke" /\ Head(exprs).sig = "ok"
             /\ Head(exprs).name = "canIUse"
          THEN <<>> ELSE <<Head(exprs)>>) \o DropGuardCalls(Tail(exprs))

\* the scene with every guard call taken out
WithoutGuards(methods) ==
    [k \in 1..Len(methods) |->
        IF methods[k].body = Undefined THEN methods[k]
        ELSE [methods[k] EXCEPT !.body =
                Some([j \in 1..Len(methods[k].body[1]) |->
                        [methods[k].body[1][j] EXCEPT !.exprs = DropGuardCalls(@)]])]]

C2_ExactGuardMatch ==
    Completed =>
        \A f \in Findings(apiCallInfos) :
            LET own == GuardStrings(scene, MethodOf(f))
            IN  /\ f.hasCorrectCanIUse <=> (\E c \in own : c = f.requiredSysCap)
                /\ (outcome = "findings" /\ ClassIn(classified, f) = "COMPLIANT")
                        => f.requiredSysCap \in own
                /\ (\A c \in own : c # f.requiredSysCap)
                        => ~f.hasCorrectCanIUse /\ ClassIn(classified, f) # "COMPLIANT"

\* a finding whose method guards with a proper prefix of the required
\* capability and with a longer string containing it, and with nothing else
C2_Witness ==
    /\ outcome = "findings"
    /\ \E f \in Findings(results.apiCalls) :
        LET own == GuardStrings(scene, MethodOf(f))
        IN  /\ \E c \in own : c # f.requiredSysCap /\ IsPrefix(c, f.requiredSysCap)
            /\ \E c \in own : c # f.requiredSysCap /\ Includes(c, f.requiredSysCap)
            /\ ~f.hasCorrectCanIUse
            /\ ClassIn(classified, f) \in {"SEVERE", "ADVISORY"}

\* the sightings of API name in method k: resolved calls of that name
Sightings(methods, k, name) ==
    {at \in ResolvedCalls(methods, k) : ExprAt(methods, k, at).name = name}

Earlier(a, b) == a[1] < b[1] \/ (a[1] = b[1] /\ a[2] <= b[2])

FirstSighting(methods, k, name) ==
    CHOOSE a \in Sightings(methods, k, name) :
        \A b \in Sightings(methods, k, name) : Earlier(a, b)

\* location the second pass records for the call at position at of method k
RecordedLocation(methods, k, at) ==
    ResolveLocation(files, methods[k].signature, StmtsOf(methods, k)[at[1]],
                    ExprAt(methods, k, at), ExprAt(methods, k, at).name)

FindingsFor(s, k, name) ==
    {i \in 1..Len(s) : s[i].foundInMethod = scene[k].signature /\ s[i].methodName = name}

\* C3 as stated: every catalog API name called in a method has exactly one
\* finding for that method, located at the first sighting
C3_OneFindingPerCatalogName ==
    Completed =>
        \A k \in 1..Len(scene) : \A name \in CalleeNames :
            (TruthyStr(getSystemCapability(catalog, name))
                /\ Sightings(scene, k, name) # {})
            => /\ Cardinality(FindingsFor(apiCallInfos, k, name)) = 1
               /\ \A i \in FindingsFor(apiCallInfos, k, name) :
                    LET at == RecordedLocation(scene, k, FirstSighting(scene, k, name))
                    IN  /\ apiCallInfos[i].lineNumber = at.lineNumber
                        /\ apiCallInfos[i].fileName = at.fileName

\* C3 (amended): every catalog API name other than canIUse and the excluded
\* built-in names that is called in a method has exactly one finding for
\* that (method signature, API name) pair, and the finding's file name and
\* line number are those recorded for the first sighting in statement order,
\* also when the first sighting has no line and a later one has.
C3_OneFindingPerSightedApi ==
    Completed =>
        \A k \in 1..Len(scene) : \A name \in CalleeNames \ ({"canIUse"} \cup excludedMethods) :
            (TruthyStr(getSystemCapability(catalog, name))
                /\ Sightings(scene, k, name) # {})
            => /\ Cardinality(FindingsFor(apiCallInfos, k, name)) = 1
               /\ \A i \in FindingsFor(apiCallInfos, k, name) :
                    LET at == RecordedLocation(scene, k, FirstSighting(scene, k, name))
                    IN  /\ apiCallInfos[i].lineNumber = at.lineNumber
                        /\ apiCallInfos[i].fileName = at.fileName

\* an API sighted twice in a method, first without a line and later with
\* one, reported once and without a line
C3_Witness ==
    /\ outcome = "findings"
    /\ \E k \in 1..Len(scene) : \E name \in CalleeNames :
        /\ Cardinality(Sightings(scene, k, name)) >= 2
        /\ RecordedLocation(scene, k, FirstSighting(scene, k, name)).lineNumber = Undefined
        /\ \E b \in Sightings(scene, k, name) :
                RecordedLocation(scene, k, b).lineNumber # Undefined
        /\ \E i \in FindingsFor(results.apiCalls, k, name) :
                results.apiCalls[i].lineNumber = Undefined

\* the findings of method k in the list s
FindingsOfMethod(s, k) == {f \in Findings(s) : f.foundInMethod = scene[k].signature}

\* what a finding says about guard and exception handling
Verdict(f) ==
    [api |-> f.methodName, hasCanIUse |-> f.hasCanIUse,
     hasCorrectCanIUse |-> f.hasCorrectCanIUse, isTryCatchWrapped |-> f.isTryCatchWrapped]

\* bodies put in the place of a method's body: none, empty, one statement
AltBodies == {Undefined, Some(<<>>)} \cup {Some(<<st>>) : st \in StmtPool}

\* C4: guards and the exception flag are method-scoped: in the run on any
\* scene that differs from this run's scene only in the body of one method A,
\* every other method B has findings with the same hasCanIUse,
\* hasCorrectCanIUse and isTryCatchWrapped as in this run.
C4_MethodScoped ==
    Completed =>
        \A a \in 1..Len(scene) : \A alt \in AltBodies :
            LET theirs == analyzeApiCallsByMethod(catalog, files,
                                                  [scene EXCEPT ![a].body = alt])
            IN  \A b \in (1..Len(scene)) \ {a} :
                    {Verdict(f) : f \in FindingsOfMethod(apiCallInfos, b)}
                        = {Verdict(f) : f \in FindingsOfMethod(theirs, b)}

\* method A guards with the capability a finding of method B requires, or
\* has an exception marker, and B's finding is reported without it
C4_Witness ==
    /\ Completed
    /\ \E a \in 1..Len(scene) : \E b \in (1..Len(scene)) \ {a} :
        \E f \in FindingsOfMethod(apiCallInfos, b) :
            \/ f.requiredSysCap \in GuardStrings(scene, a) /\ ~f.hasCanIUse
            \/ (\E j \in 1..Len(StmtsOf(scene, a)) :
                    HasExceptionMarker(StmtsOf(scene, a)[j].text))
                /\ ~f.isTryCatchWrapped

Orderings(n) == {p \in [1..n -> 1..n] : \A i, j \in 1..n : p[i] = p[j] => i = j}

\* the scene with the statements of method k reordered by p
Reordered(methods, k, p) ==
    [methods EXCEPT ![k].body =
        Some([j \in 1..Len(methods[k].body[1]) |-> methods[k].body[1][p[j]]])]

\* C5: a guard call for the required capability makes the finding correctly
\* guarded wherever it stands in the method, and reordering the statements of
\* a method changes neither hasCanIUse, hasCorrectCanIUse nor the severity of
\* any of its findings.
C5_GuardPositionIndependent ==
    Completed =>
        \A k \in 1..Len(scene) :
            /\ \A f \in FindingsOfMethod(apiCallInfos, k) :
                    f.requiredSysCap \in GuardStrings(scene, k) => f.hasCorrectCanIUse
            /\ \A p \in Orderings(Len(StmtsOf(scene, k))) :
                scene[k].body # Undefined =>
                    LET theirs == MethodFindings(catalog, files, Reordered(scene, k, p), k)
                    IN  /\ Len(theirs) = Cardinality(FindingsOfMethod(apiCallInfos, k))
                        /\ \A f \in FindingsOfMethod(apiCallInfos, k) :
                            \E g \in Findings(theirs) :
                                /\ Verdict(g) = Verdict(f)
                                /\ ClassIn(Classify(theirs), g)
                                    = ClassIn(Classify(apiCallInfos), f)
                                /\ outcome = "findings"
                                    => ClassIn(classified, f) = ClassIn(Classify(theirs), g)

\* a correctly guarded finding whose only guard call stands after the API call
C5_Witness ==
    /\ outcome = "findings"
    /\ \E k \in 1..Len(scene) : \E f \in FindingsOfMethod(results.apiCalls, k) :
        /\ f.hasCorrectCanIUse
        /\ ClassIn(classified, f) = "COMPLIANT"
        /\ \A at \in ResolvedCalls(scene, k) :
                ExprAt(scene, k, at).name = "canIUse"
                    => at[1] > FirstSighting(scene, k, f.methodName)[1]

MarkerTokens == Containing("caughtexception") \cup Containing("caught") \cup Containing("throw")

\* the statement text carries a caught-exception or throw marker
Marked(stmt) == Range(stmt.text) \cap MarkerTokens # {}

\* C6: while the statements of a method are walked the exception flag is
\* monotonic: processing a statement with a marker sets it, no later
\* statement resets it; so isTryCatchWrapped of a finding is true iff some
\* statement of its method carries a marker, before or after the API call.
C6_FlagMonotonic ==
    /\ [][(pc = "walk" /\ pc' = "walk" /\ si' = si + 1) =>
            /\ facts.methodHasTryCatch => facts'.methodHasTryCatch
            /\ Marked(scene[mi].body[1][si]) => facts'.methodHasTryCatch
            /\ facts'.methodHasTryCatch =>
                    (facts.methodHasTryCatch \/ Marked(scene[mi].body[1][si]))]_vars
    /\ [](\A f \in Findings(apiCallInfos) \cup Findings(results.apiCalls) :
            f.isTryCatchWrapped
                <=> \E j \in 1..Len(StmtsOf(scene, MethodOf(f))) :
                        Marked(StmtsOf(scene, MethodOf(f))[j]))

\* a walked method whose marker statement stands after the API call and is
\* followed by a statement without marker; the finding is exception-wrapped
C6_Witness ==
    /\ pc = "methods"
    /\ \E f \in Findings(apiCallInfos) :
        /\ f.isTryCatchWrapped
        /\ \E j, k \in 1..Len(StmtsOf(scene, 1)) :
            /\ FirstSighting(scene, 1, f.methodName)[1] < j
            /\ j < k
            /\ Marked(StmtsOf(scene, 1)[j])
            /\ ~Marked(StmtsOf(scene, 1)[k])
            /\ \A i \in 1..(j - 1) : ~Marked(StmtsOf(scene, 1)[i])

\* what the first pass records as API calls of method k
FirstPassCalls(methods, k) ==
    Range(CollectStmts(catalog, NewMethodFacts, StmtsOf(methods, k)).methodApiCalls)

\* C7: a call whose callee is an excluded built-in name never yields a
\* finding and is recorded by neither pass, whatever the catalog holds, also
\* when the catalog lists that name.
C7_ExcludedNeverReported ==
    /\ \A f \in Findings(apiCallInfos) \cup Findings(results.apiCalls) :
            f.methodName \notin excludedMethods
    /\ \A k \in 1..Len(scene) : FirstPassCalls(scene, k) \cap excludedMethods = {}

\* a completed run over a method that calls log, with log in the catalog
C7_Witness ==
    /\ Completed
    /\ TruthyStr(getSystemCapability(catalog, "log"))
    /\ \E k \in 1..Len(scene) : Sightings(scene, k, "log") # {}

\* C8: a call of canIUse is never an API sighting and never yields a finding
\* named canIUse, also when the catalog has an entry canIUse.
C8_GuardNeverReported ==
    /\ \A f \in Findings(apiCallInfos) \cup Findings(results.apiCalls) :
            f.methodName # "canIUse"
    /\ \A k \in 1..Len(scene) : "canIUse" \notin FirstPassCalls(scene, k)

\* a completed run over a method that calls canIUse, with canIUse in the catalog
C8_Witness ==
    /\ Completed
    /\ TruthyStr(getSystemCapability(catalog, "canIUse"))
    /\ \E k \in 1..Len(scene) : Sightings(scene, k, "canIUse") # {}

\* the catalog APIs method k calls: resolved, not excluded, not the guard
RecognisedApis(methods, k) ==
    {name \in CalleeNames \ ({"canIUse"} \cup excludedMethods) :
        TruthyStr(getSystemCapability(catalog, name)) /\ Sightings(methods, k, name) # {}}

\* C9: a method without body, without statements or without a recognised API
\* call has no finding (whatever guards or markers it holds), and every
\* method with a recognised API call has one, also after such a method.
C9_NoApiNoFinding ==
    Completed =>
        \A k \in 1..Len(scene) :
            /\ RecognisedApis(scene, k) = {} => FindingsOfMethod(apiCallInfos, k) = {}
            /\ RecognisedApis(scene, k) # {} => FindingsOfMethod(apiCallInfos, k) # {}
            /\ outcome = "findings"
                => FindingsOfMethod(results.apiCalls, k) = FindingsOfMethod(apiCallInfos, k)

\* a method with no body, or with a guard or a marker but no API call,
\* followed by a method that has a finding
C9_Witness ==
    /\ outcome = "findings"
    /\ \E k \in 1..Len(scene) : \E later \in (k + 1)..Len(scene) :
        /\ RecognisedApis(scene, k) = {}
        /\ \/ scene[k].body = Undefined
           \/ GuardStrings(scene, k) # {}
           \/ \E j \in 1..Len(StmtsOf(scene, k)) : Marked(StmtsOf(scene, k)[j])
        /\ FindingsOfMethod(results.apiCalls, k) = {}
        /\ FindingsOfMethod(results.apiCalls, later) # {}

\* names of the methods, by position in the scene
MethodNames == <<"checkIn", "testLocationAPIs", "build", "testWithoutTryCatch">>

\* rec names the file of f (or the placeholder), its method and its API
NamesFinding(rec, f) ==
    /\ Includes(rec, IF f.fileName = Undefined THEN UnknownFile ELSE f.fileName)
    /\ Includes(rec, <<MethodNames[MethodOf(f)]>>)
    /\ Includes(rec, <<f.methodName>>)

NeedsRecommendation(f) == ClassIn(classified, f) \in {"SEVERE", "ADVISORY"}

\* C10 as stated: every SEVERE and ADVISORY finding has a recommendation
\* naming file (or the placeholder), method, API and required capability
C10_RecommendationNamesCapability ==
    outcome = "findings" =>
        \A f \in Findings(results.apiCalls) :
            NeedsRecommendation(f) =>
                \E i \in 1..Len(results.recommendations) :
                    /\ NamesFinding(results.recommendations[i], f)
                    /\ Includes(results.recommendations[i], f.requiredSysCap)

\* C10 (amended): for every SEVERE and every ADVISORY finding the run appends
\* one recommendation naming the file (or the placeholder), the enclosing
\* method and the API; none is appended for a COMPLIANT finding; no
\* recommendation carries a capability string.
C10_RecommendationNamesCall ==
    outcome = "findings" =>
        /\ Len(results.recommendations)
            = Cardinality({f \in Findings(results.apiCalls) : NeedsRecommendation(f)})
        /\ \A f \in Findings(results.apiCalls) :
            NeedsRecommendation(f) =>
                \E i \in 1..Len(results.recommendations) :
                    NamesFinding(results.recommendations[i], f)
        /\ \A i \in 1..Len(results.recommendations) :
            /\ \E f \in Findings(results.apiCalls) :
                    NeedsRecommendation(f) /\ NamesFinding(results.recommendations[i], f)
            /\ SC \notin Range(results.recommendations[i])

\* a finding without resolved file name that needs a recommendation and has
\* one with the placeholder
C10_Witness ==
    /\ outcome = "findings"
    /\ \E f \in Findings(results.apiCalls) :
        /\ f.fileName = Undefined
        /\ NeedsRecommendation(f)
        /\ \E i \in 1..Len(results.recommendations) :
            /\ NamesFinding(results.recommendations[i], f)
            /\ Includes(results.recommendations[i], UnknownFile)

\* the (method, API) pairs of the scene that are recognised API calls
RecognisedPairs(methods) ==
    {<<k, name>> \in (1..Len(methods)) \X CalleeNames : name \in RecognisedApis(methods, k)}

\* C11: after a run with at least one finding the summary counts are:
\* totalApiCalls = number of distinct API names over the findings; the
\* findings list has one entry per recognised (method, API) pair;
\* apisWithCanIUse = findings whose method has a non-empty guard-capability
\* set (a wrong guard counts); apisWithCorrectCanIUse = findings whose
\* required capability is in that set; apisWithTryCatch = findings whose
\* method has an exception marker.
C11_SummaryCounts ==
    outcome = "findings" =>
        LET found == results.apiCalls
            at == 1..Len(found)
        IN  /\ found = apiCallInfos
            /\ Len(found) = Cardinality(RecognisedPairs(scene))
            /\ Len(found) >= 1
            /\ results.summary.totalApiCalls = Cardinality({found[i].methodName : i \in at})
            /\ results.summary.apisWithCanIUse
                = Cardinality({i \in at : GuardStrings(scene, MethodOf(found[i])) # {}})
            /\ results.summary.apisWithCorrectCanIUse
                = Cardinality({i \in at :
                    found[i].requiredSysCap \in GuardStrings(scene, MethodOf(found[i]))})
            /\ results.summary.apisWithTryCatch
                = Cardinality({i \in at :
                    \E j \in 1..Len(StmtsOf(scene, MethodOf(found[i]))) :
                        Marked(StmtsOf(scene, MethodOf(found[i]))[j])})

\* a run whose only guard names another capability: the finding counts as
\* using canIUse and not as using the correct one
C11_Witness ==
    /\ outcome = "findings"
    /\ results.summary.apisWithCanIUse >= 1
    /\ results.summary.apisWithCorrectCanIUse = 0
    /\ \E f \in Findings(results.apiCalls) :
            GuardStrings(scene, MethodOf(f)) # {}
                /\ f.requiredSysCap \notin GuardStrings(scene, MethodOf(f))

ZeroSummary == EmptyResults.summary

\* the calls of analyze made so far, by position in the call log
AnalyzeCalls == {i \in 1..Len(returned) : returned[i].op = "analyze"}

\* C12: a run in which buildScene fails returns a Report whose findings list
\* is empty, whose summary counts are all zero and whose recommendations are
\* exactly the one run-level error entry.
C12_FailedBuildReturnsEmptyReport ==
    \A i \in AnalyzeCalls :
        ~returned[i].built =>
            /\ returned[i].outcome = "aborted"
            /\ returned[i].report.apiCalls = <<>>
            /\ returned[i].report.summary = ZeroSummary
            /\ returned[i].report.recommendations = <<ErrorRecommendation>>

Unresolved(expr) == expr.kind = "invoke" /\ expr.sig # "ok"

RECURSIVE DropUnresolved(_)
DropUnresolved(exprs) ==
    IF exprs = <<>> THEN <<>>
    ELSE (IF Unresolved(Head(exprs)) THEN <<>> ELSE <<Head(exprs)>>)
            \o DropUnresolved(Tail(exprs))

\* the scene with every call expression taken out whose callee does not resolve
WithoutUnresolved(methods) ==
    [k \in 1..Len(methods) |->
        IF methods[k].body = Undefined THEN methods[k]
        ELSE [methods[k] EXCEPT !.body =
                Some([j \in 1..Len(methods[k].body[1]) |->
                        [methods[k].body[1][j] EXCEPT !.exprs = DropUnresolved(@)]])]]

\* C13: a call expression whose callee name does not resolve (no signature,
\* or the provider raises) is skipped alone: it adds no guard capability and
\* no sighting, the Report shows no error, and the findings are those of the
\* same method with the unresolved expressions absent, so the expressions
\* after it in the statement and the later statements are all processed.
C13_UnresolvedCalleeSkipped ==
    /\ pc = "methods" =>
            /\ facts.methodCanIUseCalls = GuardStrings(scene, 1)
            /\ facts = CollectStmts(catalog, NewMethodFacts, StmtsOf(WithoutUnresolved(scene), 1))
            /\ apiCallInfos = analyzeApiCallsByMethod(catalog, files, WithoutUnresolved(scene))
    /\ Completed =>
            /\ \A name \in RecognisedApis(scene, 1) : FindingsFor(apiCallInfos, 1, name) # {}
            /\ \A i \in 1..Len(results.recommendations) :
                    results.recommendations[i] # ErrorRecommendation
    /\ outcome # "aborted"

\* a run over a method in which an unresolved guard call and an unresolved
\* call stand before a resolved API call of the same statement, and a
\* statement follows; the API call has its finding, without guard
C13_Witness ==
    /\ outcome = "findings"
    /\ \E j \in 1..(Len(StmtsOf(scene, 1)) - 1) : \E e \in 2..3 :
        LET exprs == StmtsOf(scene, 1)[j].exprs
        IN  /\ e <= Len(exprs)
            /\ Unresolved(exprs[1])
            /\ exprs[1].name = "canIUse"
            /\ ~Unresolved(exprs[e])
            /\ \E f \in Findings(results.apiCalls) :
                    f.methodName = exprs[e].name /\ ~f.hasCanIUse
            /\ \E f \in Findings(results.apiCalls) :
                    f.methodName \in RecognisedApis([scene EXCEPT ![1].body =
                        Some(<<StmtsOf(scene, 1)[j + 1]>>)], 1)

\* C14: every call of analyze returns a Report, and a run ends in exactly one
\* of three ways: it completes with findings, it completes with zero
\* findings, or it aborts with the error recommendation because building
\* the program representation failed.
C14_ThreeWaysToEnd ==
    /\ pc \in {"idle", "methods"}
    /\ pc = "methods" => mi <= Len(scene) + 1
    /\ \A i \in AnalyzeCalls :
        /\ returned[i].outcome \in {"findings", "empty", "aborted"}
        /\ returned[i].outcome = "aborted" <=> ~returned[i].built
        /\ returned[i].outcome = "aborted" =>
                LET recs == returned[i].report.recommendations
                IN  recs # <<>> /\ recs[Len(recs)] = ErrorRecommendation
        /\ returned[i].outcome = "findings" => returned[i].report.apiCalls # <<>>

\* C15: two completed runs on the same input return identical Reports (same
\* findings, same recommendation list, same summary counts), also when both
\* are made on the same analyzer instance.
C15_SameInputSameReport ==
    \A i, j \in AnalyzeCalls :
        (/\ returned[i].built /\ returned[j].built
         /\ returned[i].input = returned[j].input
         /\ returned[i].outcome \in {"findings", "empty"}
         /\ returned[j].outcome \in {"findings", "empty"})
        => returned[i].report = returned[j].report

\* C16: the Report a call returned is immutable: whatever is done on the
\* analyzer afterwards (analyze for another input, getResults, saveToFile),
\* the findings, recommendations and summary of the returned object stay as
\* they were when it was returned.  Every call returns the one object
\* this.results, whose present content is the variable results.
C16_ReturnedReportImmutable ==
    \A i \in 1..Len(returned) : returned[i].report = results

\* the findings with the line number blanked
WithoutLines(found) == [i \in 1..Len(found) |-> [found[i] EXCEPT !.lineNumber = Undefined]]

\* the file named in the signature of method k, as the file system holds it
SourceOf(k) ==
    LET name == MatchFileName(scene[k].signature)
    IN  IF name = Undefined \/ name[1] \notin DOMAIN files THEN Undefined ELSE files[name[1]]

NoCandidateLine(k, apiName) ==
    /\ SourceOf(k) # Undefined
    /\ \A i \in 1..Len(SourceOf(k)[1]) : ~IsCandidateLine(SourceOf(k)[1][i], apiName)

\* C17: when the source file cannot be read, or holds no candidate line, the
\* source scan gives no line and nothing is raised: the run is not aborted,
\* the sighting has its finding with the line number absent, and its file
\* name, guard values, exception value and severity are those of the run in
\* which the file can be read.
C17_UnreadableSourceKeepsFinding ==
    /\ outcome # "aborted"
    /\ Completed =>
        LET readable == analyzeApiCallsByMethod(catalog, DemoFiles, scene)
        IN  /\ WithoutLines(apiCallInfos) = WithoutLines(readable)
            /\ Classify(WithoutLines(apiCallInfos)) = Classify(WithoutLines(readable))
            /\ \A i \in 1..Len(apiCallInfos) :
                    (SourceOf(1) = Undefined \/ NoCandidateLine(1, apiCallInfos[i].methodName))
                        => apiCallInfos[i].lineNumber = Undefined
            /\ \A i \in 1..Len(results.recommendations) :
                    results.recommendations[i] # ErrorRecommendation

\* a run without readable source file that reports an exception-wrapped
\* finding without line number, which has a line when the file can be read
C17_Witness ==
    /\ outcome = "findings"
    /\ SourceOf(1) = Undefined
    /\ \E i \in 1..Len(results.apiCalls) :
        /\ results.apiCalls[i].lineNumber = Undefined
        /\ results.apiCalls[i].fileName = FileDemo
        /\ results.apiCalls[i].isTryCatchWrapped
        /\ analyzeApiCallsByMethod(catalog, DemoFiles, scene)[i].lineNumber = Some(8)

\* the steps of the location block, in program order
LocateSteps ==
    <<"text", "exprPosition", "stmtPosition", "fileName", "signature", "source", "push">>

StepIndex(p) == CHOOSE i \in 1..Len(LocateSteps) : LocateSteps[i] = p

InLocate(p) == \E i \in 1..Len(LocateSteps) : LocateSteps[i] = p

\* what each source of a line has to offer for the sighting
TextToken ==
    IF MatchLineToken(SightedExpr.text[1]) # Undefined
    THEN Some(parseInt(MatchLineToken(SightedExpr.text[1])[1]))
    ELSE IF MatchLineToken(SightedStmt.text) # Undefined
    THEN Some(parseInt(MatchLineToken(SightedStmt.text)[1]))
    ELSE Undefined

PositionOf(x) == IF x.loc.st = "ok" THEN Some(x.loc.line) ELSE Undefined

SignatureToken ==
    IF MatchSigLine(scene[1].signature) # Undefined
    THEN Some(parseInt(MatchSigLine(scene[1].signature)[1]))
    ELSE Undefined

\* the sources before the scan, in the order of the claim (the token of the
\* method signature stands between the positions and the scan)
EarlierSources == <<TextToken, PositionOf(SightedExpr), PositionOf(SightedStmt), SignatureToken>>

\* C18: the location fallbacks run in a fixed order: line token of the
\* expression text, else of the statement text; position of the expression;
\* position of the statement; (line token of the method signature;) scan of
\* the source file.  A step is taken only while no line has been found (the
\* code's test "!lineNumber"): once a step has yielded a line, no later step
\* changes it and the source file is not read; the finding carries the line
\* of the first source in this order that yields one.
C18_FallbackOrder ==
    /\ [][/\ (InLocate(pc) /\ pc' # pc /\ InLocate(pc'))
                => (StepIndex(pc') = StepIndex(pc) + 1 \/ (pc = "text" /\ pc' = "push"))
          /\ (InLocate(pc) /\ TruthyNum(loc.lineNumber))
                => (loc'.lineNumber = loc.lineNumber /\ loc'.reads = loc.reads)
          /\ loc'.reads # loc.reads => pc = "source"]_vars
    /\ []((pc \in {"push", "methods"} /\ SightedExpr.text # Undefined) =>
            /\ \A i \in 1..Len(EarlierSources) :
                    (TruthyNum(EarlierSources[i])
                        /\ \A k \in 1..(i - 1) : ~TruthyNum(EarlierSources[k]))
                    => (loc.lineNumber = EarlierSources[i] /\ loc.reads = 0)
            /\ loc.reads = 1 <=> \A i \in 1..Len(EarlierSources) : ~TruthyNum(EarlierSources[i])
            /\ loc.reads \in {0, 1}
            /\ pc = "methods" => \A f \in Findings(apiCallInfos) : f.lineNumber = loc.lineNumber)

\* a sighting whose expression text carries the line token 5, whose provider
\* positions are 7 and 9 and whose source file holds the call on line 8: the
\* finding has line 5 and the file was not read
C18_Witness ==
    /\ pc = "methods"
    /\ SightedExpr.text # Undefined
    /\ TextToken = Some(5)
    /\ PositionOf(SightedExpr) = Some(7)
    /\ PositionOf(SightedStmt) = Some(9)
    /\ findApiLineNumber(files, FileDemo, "getCurrentLocation", <<"checkIn">>) = Some(8)
    /\ loc.fileName = FileDemo
    /\ loc.reads = 0
    /\ \E f \in Findings(apiCallInfos) : f.lineNumber = Some(5)

\* the line the source scan gave to the sighting, when it gave one
ScannedLine == IF loc.reads = 1 /\ pc \in {"push", "methods"} THEN loc.lineNumber ELSE Undefined

ScannedSource == files[loc.fileName][1]

\* lines that declare a method of the scene: its name, then "("
DeclaresMethod(line) ==
    \E i \in 1..(Len(line) - 1) : InSeq(line[i], MethodNames) /\ line[i + 1] = "("

\* line i belongs to the method m: the nearest declaration at or above it names m
InsideMethod(lines, i, m) ==
    \E d \in 1..i :
        /\ DeclaresMethod(lines[d]) /\ Includes(lines[d], m)
        /\ \A k \in (d + 1)..i : ~DeclaresMethod(lines[k])

\* the line opens, continues or is a comment
IsCommentLine(line) ==
    TrimStart(line) # <<>> /\ Head(TrimStart(line)) \in {"//", "/*", "/**", "*", "*/"}

\* C19: the line the source scan returns for a sighting of API a in method m
\* is a line with a call of a inside method m; a sighting in the second
\* method of a file is not given the line of the call in the first method.
\* (Stated for returned lines that are no comment lines, which C20 is about.)
C19_ScanConfirmsScope ==
    (ScannedLine # Undefined /\ ~IsCommentLine(ScannedSource[ScannedLine[1]])) =>
        /\ IsCandidateLine(ScannedSource[ScannedLine[1]], SightedExpr.name)
        /\ InsideMethod(ScannedSource, ScannedLine[1], extractMethodName(scene[1].signature))

\* C20: the source scan never returns the number of a comment line (line
\* comment, opening line or continuation line of a block comment).
C20_ScanSkipsComments ==
    ScannedLine # Undefined => ~IsCommentLine(ScannedSource[ScannedLine[1]])

\* C21: a line number carried by a finding is an integer >= 1, whichever
\* fallback produced it (text token, provider position, signature token or
\* source scan); 0 or a negative value is never stored in a finding.
C21_LineAtLeastOne ==
    \A f \in Findings(apiCallInfos) \cup Findings(results.apiCalls) :
        f.lineNumber # Undefined => f.lineNumber[1] >= 1

(* ---------------------------------------------------------------------- *)
(* The demo project (resources/demo_project), analysed by one run          *)
(* ---------------------------------------------------------------------- *)
DemoCalleeNames ==
    CalleeNames \cup {"getCameraManager", "getSupportedCameras", "isLocationEnabled",
                      "error", "stringify"}

\* the entries of API_TO_SYSCAP for the names the demo project calls
CatalogDemo ==
    [n \in DemoCalleeNames |->
        CASE n \in {"getCurrentLocation", "getLastLocation", "isLocationEnabled"}
                -> CapLocationCore
          [] n \in {"getCameraManager", "getSupportedCameras"} -> CapCameraCore
          [] OTHER -> Undefined]

\* MethodSignature.toString() of a method of the demo project
DemoSignature(file, class, method) ==
    <<"@">> \o file \o <<":", " ", class, ".", method, "(", ")">>

\* statements of the demo methods as the provider flattens them: a call per
\* statement, a catch clause as a "caughtexception" statement
DemoCall(name) == Stmt(<<"instanceinvoke">>, <<Call(name)>>)

DemoCatch == Stmt(<<"caughtexception">>, <<>>)

DemoLogError == Stmt(<<"instanceinvoke">>, <<Call("stringify"), Call("error")>>)

\* the methods of demo.ts and test_multiple_apis.ts, in file order
DemoMethods ==
    << [signature |-> DemoSignature(FileDemo, "Index", "checkIn"),
        body |-> Some(<<DemoCall("getCurrentLocation"), DemoCall("log"), DemoCatch,
                        DemoLogError>>)],
       [signature |-> DemoSignature(FileDemo, "Index", "build"),
        body |-> Some(<<DemoCall("log")>>)],
       [signature |-> DemoSignature(FileTest, "TestMultipleAPIs", "testLocationAPIs"),
        body |-> Some(<<CorrectGuard, DemoCall("getCurrentLocation"),
                        DemoCall("getLastLocation"), DemoCall("log"), DemoCatch,
                        DemoLogError>>)],
       [signature |-> DemoSignature(FileTest, "TestMultipleAPIs", "testCameraAPIs"),
        body |-> Some(<<Stmt(<<"if">>, <<Guard(Quote(CapWrongCapability))>>),
                        DemoCall("getCameraManager"), DemoCall("getSupportedCameras"),
                        DemoCatch, DemoCall("error")>>)],
       [signature |-> DemoSignature(FileTest, "TestMultipleAPIs", "testWithoutCanIUse"),
        body |-> Some(<<DemoCall("isLocationEnabled"), DemoCall("log"), DemoCatch,
                        DemoCall("error")>>)],
       [signature |-> DemoSignature(FileTest, "TestMultipleAPIs", "testWithoutTryCatch"),
        body |-> Some(<<CorrectGuard, DemoCall("getCurrentLocation")>>)] >>

\* getMethods() fixes no order: the scene is the demo methods in some order
IsDemoScene(methods) ==
    \E p \in Orderings(Len(DemoMethods)) :
        methods = [k \in 1..Len(DemoMethods) |-> DemoMethods[p[k]]]

DemoFileSets == {BothFiles, NoFiles}

InitDemo ==
    /\ catalog = CatalogDemo
    /\ files \in DemoFileSets
    /\ IsDemoScene(scene)
    /\ pc = "idle"
    /\ runs = 0
    /\ outcome = "none"
    /\ mi = 0
    /\ apiCallInfos = <<>>
    /\ results = EmptyResults
    /\ classified = NothingClassified
    /\ si = 0
    /\ facts = NewMethodFacts
    /\ returned = <<>>
    /\ saved = FALSE
    /\ loc = NotLocated

NextDemo ==
    \/ analyze_buildScene
    \/ analyze_method
    \/ analyze_report

SpecDemo == InitDemo /\ [][NextDemo]_vars

\* the findings of the report for a call of API name in the demo method m
DemoFindings(m, name) ==
    {f \in Findings(results.apiCalls) :
        extractMethodName(f.foundInMethod) = <<m>> /\ f.methodName = name}

\* C22: a run on the demo project reports 5 distinct API names, 7 findings,
\* 5 findings with any canIUse, 3 with the correct canIUse and 6 with
\* try-catch, in whatever order the methods are enumerated.
C22_DemoCounts ==
    Completed =>
        /\ outcome = "findings"
        /\ Len(results.apiCalls) = 7
        /\ results.summary = [totalApiCalls |-> 5, apisWithCanIUse |-> 5,
                              apisWithCorrectCanIUse |-> 3, apisWithTryCatch |-> 6]

\* the run on the demo methods in file order has returned its report, with
\* findings from each of the five methods that call an API
C22_Witness ==
    /\ Completed
    /\ scene = DemoMethods
    /\ Len(returned) = 1
    /\ \A m \in {"checkIn", "testLocationAPIs", "testCameraAPIs", "testWithoutCanIUse",
                 "testWithoutTryCatch"} :
            \E f \in Findings(returned[1].report.apiCalls) :
                extractMethodName(f.foundInMethod) = <<m>>

\* C23: in the run on the demo project the call of getCurrentLocation in
\* testWithoutTryCatch is in the severe class (lacking canIUse and try-catch)
\* and the call in testLocationAPIs is in the class of correct usage.
C23_DemoClasses ==
    outcome = "findings" =>
        /\ \A f \in DemoFindings("testWithoutTryCatch", "getCurrentLocation") :
                ClassIn(classified, f) = "SEVERE"
        /\ \A f \in DemoFindings("testLocationAPIs", "getCurrentLocation") :
                ClassIn(classified, f) = "COMPLIANT"

\* every match of /SystemCapability\.[A-Za-z0-9.]+/ in text, as a global
\* search finds them: leftmost first, then on from the end of each match
RECURSIVE CapabilityTokens(_)
CapabilityTokens(text) ==
    LET starts == {i \in 1..(Len(text) - 1) : text[i] = SC /\ text[i + 1] \in CapChars}
    IN  IF starts = {} THEN {}
        ELSE LET i == CHOOSE k \in starts : \A m \in starts : k <= m
                 e == RunEnd(text, i + 1)
             IN  {SubSeq(text, i, e)} \cup CapabilityTokens(SubSeq(text, e + 1, Len(text)))

\* the capability tokens in the argument texts of the resolved guard calls of method k
GuardTokens(methods, k) ==
    UNION {UNION {CapabilityTokens(ExprAt(methods, k, at).args[a][1]) :
                    a \in {b \in 1..Len(ExprAt(methods, k, at).args) :
                            ExprAt(methods, k, at).args[b] # Undefined}} :
           at \in {c \in ResolvedCalls(methods, k) : ExprAt(methods, k, c).name = GuardName}}

\* C24: every capability token that occurs in an argument text of a resolved
\* guard call of a method is in that method's guard-capability set: a finding
\* has hasCanIUse iff its method's guard calls hold a token, and
\* hasCorrectCanIUse iff they hold its required capability; guard calls whose
\* arguments hold no token leave the set empty.
C24_EveryGuardTokenCollected ==
    (outcome = "findings" /\ pc = "idle") =>
        \A f \in Findings(results.apiCalls) :
            LET own == GuardTokens(scene, MethodOf(f))
            IN  /\ f.hasCanIUse <=> own # {}
                /\ f.hasCorrectCanIUse <=> f.requiredSysCap \in own

(* ---------------------------------------------------------------------- *)
(* The method loop fanned out: one worker per method, each running the     *)
(* loop body of its method statement by statement                          *)
(* ---------------------------------------------------------------------- *)
WorkerPool == {ApiWithoutLine, CorrectGuard, CaughtStmt}

\* scenes of up to MaxMethods methods with up to MaxWalk statements in all
WorkerShapes == {sh \in SeqsUpTo(-1..MaxWalk, MaxMethods) : TotalStmts(sh) <= MaxWalk}

IsWorkerScene(methods) ==
    \E sh \in WorkerShapes : \E ss \in [1..TotalStmts(sh) -> WorkerPool] :
        methods = SceneOf(CutBodies(sh, ss))

\* In this specification si and facts hold one value per method: si[k] is the
\* statement worker k is about to take (0 once the worker has finished), and
\* facts[k] are the accumulators its loop body declared.
InitWorkers ==
    /\ catalog = CatalogPlain
    /\ files = DemoFiles
    /\ IsWorkerScene(scene)
    /\ pc = "idle"
    /\ runs = 0
    /\ outcome = "none"
    /\ mi = 0
    /\ apiCallInfos = <<>>
    /\ results = EmptyResults
    /\ classified = NothingClassified
    /\ si = <<>>
    /\ facts = <<>>
    /\ returned = <<>>
    /\ saved = FALSE
    /\ loc = NotLocated

\* buildScene succeeded; a worker is started for every method
workers_start ==
    /\ pc = "idle"
    /\ runs = 0
    /\ runs' = runs + 1
    /\ outcome' = "running"
    /\ pc' = "workers"
    /\ mi' = 1
    /\ si' = [k \in 1..Len(scene) |-> 1]
    /\ facts' = [k \in 1..Len(scene) |-> NewMethodFacts]
    /\ apiCallInfos' = <<>>
    /\ classified' = NothingClassified
    /\ UNCHANGED <<inputs, results, returned, saved, loc>>

\* "if (!body) continue"
worker_noBody ==
    \E k \in 1..Len(scene) :
        /\ pc = "workers"
        /\ si[k] # 0
        /\ scene[k].body = Undefined
        /\ si' = [si EXCEPT ![k] = 0]
        /\ UNCHANGED <<inputs, pc, runs, outcome, mi, apiCallInfos, results, classified,
                       facts, returned, saved, loc>>

\* one iteration of the first "for (const stmt of stmts)" of worker k
worker_stmt ==
    \E k \in 1..Len(scene) :
        /\ pc = "workers"
        /\ scene[k].body # Undefined
        /\ si[k] # 0
        /\ si[k] <= Len(scene[k].body[1])
        /\ facts' = [facts EXCEPT ![k] = CollectStmt(catalog, @, scene[k].body[1][si[k]])]
        /\ si' = [si EXCEPT ![k] = @ + 1]
        /\ UNCHANGED <<inputs, pc, runs, outcome, mi, apiCallInfos, results, classified,
                       returned, saved, loc>>

\* the second loop of worker k and its pushes to the shared list apiCallInfos
worker_push ==
    \E k \in 1..Len(scene) :
        /\ pc = "workers"
        /\ scene[k].body # Undefined
        /\ si[k] > Len(scene[k].body[1])
        /\ LET located == SightingsOfStmts(catalog, files, scene[k].signature,
                                           scene[k].body[1])
           IN  apiCallInfos' = apiCallInfos \o
                   ApiCallInfosOf(catalog, facts[k], located, scene[k].signature,
                                  uniqueApiCalls(located))
        /\ si' = [si EXCEPT ![k] = 0]
        /\ UNCHANGED <<inputs, pc, runs, outcome, mi, results, classified, facts,
                       returned, saved, loc>>

\* every worker has finished: "return apiCallInfos"
workers_join ==
    /\ pc = "workers"
    /\ \A k \in 1..Len(scene) : si[k] = 0
    /\ pc' = "methods"
    /\ mi' = Len(scene) + 1
    /\ UNCHANGED <<inputs, runs, outcome, apiCallInfos, results, classified, si, facts,
                   returned, saved, loc>>

NextWorkers ==
    \/ workers_start
    \/ worker_noBody
    \/ worker_stmt
    \/ worker_push
    \/ workers_join
    \/ analyze_noFindings
    \/ analyze_report

SpecWorkers == InitWorkers /\ [][NextWorkers]_vars

\* the scene with its methods enumerated in the order p
Enumerated(methods, p) == [k \in 1..Len(methods) |-> methods[p[k]]]

\* C25: the analysis of a method depends on no other method: for every
\* enumeration order of the methods, and for every interleaving of workers
\* that each analyse one method, the findings (with their guard, exception,
\* file and line values) are those of the serial run; only their order in the
\* list may differ.
C25_NoCrossMethodDependency ==
    Completed =>
        LET serial == analyzeApiCallsByMethod(catalog, files, scene)
        IN  /\ Findings(apiCallInfos) = Findings(serial)
            /\ Len(apiCallInfos) = Len(serial)
            /\ \A p \in Orderings(Len(scene)) :
                LET other == analyzeApiCallsByMethod(catalog, files, Enumerated(scene, p))
                IN  Findings(other) = Findings(serial) /\ Len(other) = Len(serial)

\* two workers have finished, the worker of the second method pushed first:
\* the report lists the findings in another order than the serial run, and
\* only one of the two methods has an exception marker
C25_Witness ==
    /\ outcome = "findings"
    /\ Len(scene) = 2
    /\ Len(results.apiCalls) = 2
    /\ results.apiCalls # analyzeApiCallsByMethod(catalog, files, scene)
    /\ results.apiCalls[1].foundInMethod = scene[2].signature
    /\ results.apiCalls[1].isTryCatchWrapped # results.apiCalls[2].isTryCatchWrapped

RECURSIVE ReadableStmts(_)
ReadableStmts(stmts) ==
    IF stmts = <<>> THEN <<>>
    ELSE (IF Head(stmts).reads = "ok" THEN <<Head(stmts)>> ELSE <<>>)
            \o ReadableStmts(Tail(stmts))

\* the scene without the statements the provider cannot render
WithoutUnreadable(methods) ==
    [k \in 1..Len(methods) |->
        IF methods[k].body = Undefined THEN methods[k]
        ELSE [methods[k] EXCEPT !.body = Some(ReadableStmts(@[1]))]]

\* C26: a failure raised while reading one statement or call expression does
\* not leave that statement or call expression: a run whose program
\* representation was built is never aborted, and its report holds the
\* findings of all the statements that can be read.
C26_FailureContained ==
    \A i \in AnalyzeCalls :
        returned[i].built =>
            /\ returned[i].outcome # "aborted"
            /\ Findings(analyzeApiCallsByMethod(catalog, files,
                                                WithoutUnreadable(returned[i].input[1])))
                    \subseteq Findings(returned[i].report.apiCalls)

\* the first pass with the two tests in the other order: the guard-function
\* name is tested before the exclusion set
GuardFirstCollectExpr(cat, acc, expr) ==
    IF ~IsInvoke(expr) \/ ~Resolves(expr) THEN acc
    ELSE IF expr.name = GuardName
         THEN IF expr.argsThrow THEN acc
              ELSE [acc EXCEPT !.methodCanIUseCalls = @ \cup ArgCapabilities(expr.args)]
    ELSE IF expr.name \in excludedMethods THEN acc
    ELSE IF TruthyStr(getSystemCapability(cat, expr.name))
         THEN [acc EXCEPT !.methodApiCalls = Append(@, expr.name)]
    ELSE acc

RECURSIVE GuardFirstCollectExprs(_, _, _)
GuardFirstCollectExprs(cat, acc, exprs) ==
    IF exprs = <<>> THEN acc
    ELSE GuardFirstCollectExprs(cat, GuardFirstCollectExpr(cat, acc, Head(exprs)), Tail(exprs))

RECURSIVE GuardFirstCollectStmts(_, _, _)
GuardFirstCollectStmts(cat, acc, stmts) ==
    IF stmts = <<>> THEN acc
    ELSE GuardFirstCollectStmts(cat,
            GuardFirstCollectExprs(cat,
                [acc EXCEPT !.methodHasTryCatch = UpdateTryCatch(@, Head(stmts).text)],
                Head(stmts).exprs),
            Tail(stmts))

\* the names the second pass records when it tests the exclusion set before
\* the guard-function name
RECURSIVE ExclusionFirstNames(_, _)
ExclusionFirstNames(cat, exprs) ==
    IF exprs = <<>> THEN <<>>
    ELSE LET expr == Head(exprs)
         IN  (IF IsInvoke(expr) /\ Resolves(expr) /\ expr.name \notin excludedMethods
                    /\ expr.name # GuardName /\ TruthyStr(getSystemCapability(cat, expr.name))
              THEN <<expr.name>> ELSE <<>>) \o ExclusionFirstNames(cat, Tail(exprs))

RECURSIVE SightedNames(_)
SightedNames(located) ==
    IF located = <<>> THEN <<>> ELSE <<Head(located).api>> \o SightedNames(Tail(located))

\* the resolved guard calls among the statements taken so far
WalkedGuardCalls ==
    {at \in ResolvedCalls(scene, 1) :
        at[1] < si /\ ExprAt(scene, 1, at).name = GuardName}

C28_ReportCountsOrdered ==
    Completed =>
        LET n == Len(results.apiCalls)
            s == results.summary
        IN  /\ \A f \in Findings(results.apiCalls) : f.hasCorrectCanIUse => f.hasCanIUse
            /\ s.apisWithCorrectCanIUse <= s.apisWithCanIUse
            /\ s.apisWithCanIUse <= n
            /\ s.apisWithTryCatch <= n
            /\ s.totalApiCalls <= n
            /\ n >= 1 => s.totalApiCalls >= 1

\* the report of a fresh analyzer's run with one finding that is correctly
\* guarded and has no exception marker: every count but apisWithTryCatch is 1
C28_Witness ==
    /\ outcome = "findings"
    /\ Len(returned) = 1
    /\ Len(results.apiCalls) = 1
    /\ \E f \in Findings(results.apiCalls) : f.hasCorrectCanIUse /\ f.hasCanIUse
    /\ results.summary.totalApiCalls = 1
    /\ results.summary.apisWithCorrectCanIUse = 1
    /\ results.summary.apisWithCanIUse = 1
    /\ results.summary.apisWithTryCatch = 0

(* ---------------------------------------------------------------------- *)
(* The serial run of analyze over the scenes of the fanned-out loop         *)
(* ---------------------------------------------------------------------- *)
InitSerial ==
    /\ catalog = CatalogPlain
    /\ files = DemoFiles
    /\ IsWorkerScene(scene)
    /\ pc = "idle"
    /\ runs = 0
    /\ outcome = "none"
    /\ mi = 0
    /\ apiCallInfos = <<>>
    /\ results = EmptyResults
    /\ classified = NothingClassified
    /\ si = 0
    /\ facts = NewMethodFacts
    /\ returned = <<>>
    /\ saved = FALSE
    /\ loc = NotLocated

SpecSerial == InitSerial /\ [][Next]_vars

\* positions in the findings list of the findings of a class
SevereAt(found) ==
    {i \in 1..Len(found) : ~found[i].hasCorrectCanIUse /\ ~found[i].isTryCatchWrapped}

AdvisoryAt(found) ==
    {i \in 1..Len(found) : ~found[i].hasCorrectCanIUse /\ found[i].isTryCatchWrapped}

\* the place the recommendation for finding i has when the SEVERE group comes
\* first and each group keeps the order of the findings list
RecommendationPlace(found, i) ==
    IF i \in SevereAt(found)
    THEN Cardinality({j \in SevereAt(found) : j <= i})
    ELSE Cardinality(SevereAt(found)) + Cardinality({j \in AdvisoryAt(found) : j <= i})

\* the findings list follows the method enumeration, then the first sightings
InEnumerationOrder(found) ==
    \A i, j \in 1..Len(found) :
        i < j =>
            \/ MethodOf(found[i]) < MethodOf(found[j])
            \/ /\ MethodOf(found[i]) = MethodOf(found[j])
               /\ found[i].methodName # found[j].methodName
               /\ Earlier(FirstSighting(scene, MethodOf(found[i]), found[i].methodName),
                          FirstSighting(scene, MethodOf(found[j]), found[j].methodName))

\* C29: a run on a fresh analyzer appends as many recommendations as there are
\* SEVERE and ADVISORY findings; those for SEVERE findings come first, and in
\* each group they follow the order of the findings list, which is the method
\* enumeration order, then the order of first sighting within a method.
C29_RecommendationOrder ==
    outcome = "findings" =>
        LET found == results.apiCalls
            recs == results.recommendations
        IN  /\ Len(recs) = Cardinality(SevereAt(found)) + Cardinality(AdvisoryAt(found))
            /\ \A i \in SevereAt(found) \cup AdvisoryAt(found) :
                LET rec == recs[RecommendationPlace(found, i)]
                IN  /\ NamesFinding(rec, found[i])
                    /\ i \in SevereAt(found) <=> rec[1] = SevereRecommendation(found[i])[1]
            /\ InEnumerationOrder(found)

\* a report whose first two findings are ADVISORY (two APIs of one method with
\* an exception marker) and whose third is SEVERE: the recommendation for the
\* third finding is the first of the list
C29_Witness ==
    /\ outcome = "findings"
    /\ Len(results.apiCalls) = 3
    /\ AdvisoryAt(results.apiCalls) = {1, 2}
    /\ SevereAt(results.apiCalls) = {3}
    /\ results.apiCalls[1].foundInMethod = results.apiCalls[2].foundInMethod
    /\ Len(results.recommendations) = 3
    /\ NamesFinding(results.recommendations[1], results.apiCalls[3])
    /\ NamesFinding(results.recommendations[3], results.apiCalls[2])

\* the content of this.results when the latest call returned
LastReturnedReport ==
    IF returned = <<>> THEN EmptyResults ELSE returned[Len(returned)].report

\* C30: a run that finds no finding leaves this.results as it was before the
\* call: the method loop changes nothing of it, the Report such a run returns
\* has the content the previous call left (the empty Report with all counts
\* zero on a fresh analyzer), and getResults right after returns that content.
C30_EmptyRunLeavesReport ==
    /\ pc = "methods" => results = LastReturnedReport
    /\ \A i \in 1..Len(returned) :
        returned[i].outcome = "empty" =>
            /\ returned[i].report = (IF i = 1 THEN EmptyResults ELSE returned[i - 1].report)
            /\ (i < Len(returned) /\ returned[i + 1].op = "getResults")
                    => returned[i + 1].report = returned[i].report

\* after a run with findings, a run on a scene without API calls returned the
\* report of the earlier run, and getResults returned it once more
C30_Witness ==
    /\ Len(returned) = 3
    /\ returned[1].outcome = "findings"
    /\ returned[2].outcome = "empty"
    /\ returned[2].input = Some(NoApiScene)
    /\ returned[2].report.apiCalls # <<>>
    /\ returned[2].report = returned[1].report
    /\ returned[3].op = "getResults"
    /\ returned[3].report = returned[2].report

====
